---- MODULE Spec2Model ----
(***************************************************************************)
(* A model of the day planner: the block store (zustand) with its history, *)
(* the overlap-resolution functions of lib/blocks.ts, the drag hook, the   *)
(* legacy day-grid controller of App.old.tsx (paint, long-press, resize,   *)
(* undo/redo) and the legacy-grid migration.                               *)
(***************************************************************************)
EXTENDS Integers, Sequences, FiniteSets, TLC

\* ------------------------------------------------------------ bounds ----
MaxNow == 0            \* Date.now() ranges over 0..MaxNow
MaxIds == 2            \* generateId is called at most this many times in a run
MaxPast == 2           \* history entries explored by the gesture specification
MaxRangeCol == 2       \* a "new range" gesture visits columns 0..MaxRangeCol of DragRow
MaxDragCol == 1        \* the pointer visits columns 0..MaxDragCol of DragRow
MaxLen == 2            \* length of the block lists given to the pure functions
MaxScript == 52        \* length of the scripted push/undo run
MaxResizeOps == 2      \* resize commits (coarse or fine) in a run
MaxClock == 5          \* clock ticks of the gesture specification
MaxPress == 2          \* pointerdowns (undo snapshots) of the gesture specification
MaxPaints == 3         \* paints of one cell between two erases (grid specification)

\* ------------------------------------------------- program constants ----
IdCounterMod == 1000   \* generateId: idCounter = (idCounter + 1) % 1000
HistoryCap == 50       \* pushHistory: past.length > 50 -> shift()
NumCols == 6           \* six 10-minute columns per hour row
StartHour == 6         \* startHour of the day view (storage default)
LongPressTicks == 3    \* long-press delay: 450 ms, in clock ticks of 150 ms
MoveThreshold2 == 36   \* squared movement threshold, dx*dx + dy*dy > 36

\* -------------------------------------------------------- input sets ----
Dates == {"d1"}
Layers == {"plan", "execute", "overlay"}
ActivityIds == {"work", "rest"}
RandomSuffixes == {"a", "b"}
DragSuffixes == {"a"}     \* suffixes drawn in the gesture specification
DragRow == 6
ToolChoices == {"PAINT", "NEW_EVENT"}
NoId == <<-1, -1, "none">>

VARIABLES
  \* zustand store (stores/usePlannerStore)
  blocks,       \* dateISO -> sequence of Block; a date without a key is absent
  past,         \* history.past: sequence of snapshots of blocks
  future,       \* history.future
  tool,         \* store.tool
  brush,        \* store.brush
  \* lib/id.ts
  idCounter,    \* module-level counter of generateId
  now,          \* Date.now()
  \* hooks/useDragHandler
  dragState,    \* [isDown, startRow, startCol, lastRow, lastCol, activeCells]
  \* App.old.tsx (the day-grid application)
  dayGrid,          \* dayStore[dateISO]: cell id -> cell; an absent key is an empty cell
  undoStack,        \* undoStack.current: snapshots [grid, activeTool, activeBrush]
  redoStack,        \* redoStack.current
  activeTool,       \* "execute" | "erase" | "select"
  activeBrush,
  dragRef,          \* dragRef.current
  pendingStartCell, \* pendingStartCell.current, NoCell for null
  longPressTimer,   \* longPressTimer.current: [armed, cellId, due]
  longPressStart,   \* longPressStart.current: [set, cellId]
  checklistDialog,  \* isChecklistBlockOpen and the fields of the dialog
  selectedSegment,  \* NoSeg for null
  resizeArmed,
  resizeState,      \* resizeState.current: [active, base]
  fineBoundsStore,  \* segment key -> [startMinute, endMinute]
  fineUi,           \* DayTimeline: resizeRef, fineActiveRef, fineSideRef, fineTimerRef, fineOverlay
  date,             \* the date on screen; dateISO is toISODate(date)
  dayStore,         \* the entries of dayStore for the dates other than date
  \* pure-function harness
  pin,          \* input of the pure function under check
  pout,         \* its output
  \* observation (not program state)
  obs

oldVars == <<dayGrid, undoStack, redoStack, activeTool, activeBrush, dragRef,
             pendingStartCell, longPressTimer, longPressStart, checklistDialog,
             selectedSegment, resizeArmed, resizeState, fineBoundsStore, fineUi,
             date, dayStore>>

vars == <<blocks, past, future, tool, brush, idCounter, now, dragState, pin, pout, obs,
          oldVars>>

\* ------------------------------------------------------- lib/id.ts ------
\* generateId: `${Date.now()}-${idCounter}-${random}` after incrementing the counter.
NextCounter(c) == (c + 1) % IdCounterMod

generateId(t, c, r) == <<t, NextCounter(c), r>>

\* ---------------------------------------------------- lib/blocks.ts -----
\* createBlock: id from generateId; resistance/score/title are copied from the
\* parameters and are present-but-undefined when not given (opt = "undefined").
createBlock(id, dateISO, startMin, endMin, activityId, layer) ==
  [id |-> id, dateISO |-> dateISO, startMin |-> startMin, endMin |-> endMin,
   activityId |-> activityId, layer |-> layer, opt |-> "undefined"]

\* detectOverlap's test, also the first test of resolveOverlaps (negated there).
Intersects(c, b) == c.startMin < b.endMin /\ c.endMin > b.startMin

\* One iteration of the loop of resolveOverlaps: what block b contributes to the
\* result, and whether generateId was called. freshId is the id a split would use.
ResolveOneRightIdBug(b, c, excludeId, freshId) ==
  IF b.layer # c.layer \/ b.id = excludeId THEN <<b>>
  ELSE IF c.startMin >= b.endMin \/ c.endMin <= b.startMin THEN <<b>>
  ELSE IF c.startMin <= b.startMin /\ c.endMin >= b.endMin THEN <<>>
  ELSE IF c.startMin > b.startMin /\ c.endMin >= b.endMin
    THEN << [b EXCEPT !.endMin = c.startMin] >>
  ELSE IF c.startMin <= b.startMin /\ c.endMin < b.endMin
    THEN << [b EXCEPT !.startMin = c.endMin] >>
  ELSE << [b EXCEPT !.endMin = c.startMin], [b EXCEPT !.startMin = c.endMin] >>

ResolveOneNoTrim(b, c, excludeId, freshId) ==
  IF b.layer # c.layer \/ b.id = excludeId THEN <<b>>
  ELSE IF c.startMin >= b.endMin \/ c.endMin <= b.startMin THEN <<b>>
  ELSE IF c.startMin <= b.startMin /\ c.endMin >= b.endMin THEN <<>>
  ELSE IF c.startMin > b.startMin /\ c.endMin >= b.endMin
    THEN << [b EXCEPT !.endMin = c.startMin] >>
  ELSE IF c.startMin <= b.startMin /\ c.endMin < b.endMin
    THEN << b >>
  ELSE << [b EXCEPT !.endMin = c.startMin],
          [b EXCEPT !.id = freshId, !.startMin = c.endMin] >>

\* (mutant) a block whose tail the candidate overlaps is removed whole
ResolveOneDropTail(b, c, excludeId, freshId) ==
  IF b.layer # c.layer \/ b.id = excludeId THEN <<b>>
  ELSE IF c.startMin >= b.endMin \/ c.endMin <= b.startMin THEN <<b>>
  ELSE IF c.startMin <= b.startMin /\ c.endMin >= b.endMin THEN <<>>
  ELSE IF c.startMin > b.startMin /\ c.endMin >= b.endMin THEN <<>>
  ELSE IF c.startMin <= b.startMin /\ c.endMin < b.endMin
    THEN << [b EXCEPT !.startMin = c.endMin] >>
  ELSE << [b EXCEPT !.endMin = c.startMin],
          [b EXCEPT !.id = freshId, !.startMin = c.endMin] >>

ResolveOne(b, c, excludeId, freshId) ==
  IF b.layer # c.layer \/ b.id = excludeId THEN <<b>>
  ELSE IF c.startMin >= b.endMin \/ c.endMin <= b.startMin THEN <<b>>
  ELSE IF c.startMin <= b.startMin /\ c.endMin >= b.endMin THEN <<>>
  ELSE IF c.startMin > b.startMin /\ c.endMin >= b.endMin
    THEN << [b EXCEPT !.endMin = c.startMin] >>
  ELSE IF c.startMin <= b.startMin /\ c.endMin < b.endMin
    THEN << [b EXCEPT !.startMin = c.endMin] >>
  ELSE IF c.startMin > b.startMin /\ c.endMin < b.endMin
    THEN << [b EXCEPT !.endMin = c.startMin],
            [b EXCEPT !.id = freshId, !.startMin = c.endMin] >>
  ELSE <<>>

\* Whether the iteration for b calls generateId (the split branch).
IsSplit(b, c, excludeId) ==
  /\ b.layer = c.layer /\ b.id # excludeId
  /\ ~(c.startMin >= b.endMin \/ c.endMin <= b.startMin)
  /\ c.startMin > b.startMin /\ c.endMin < b.endMin

\* resolveOverlaps(blocks, newBlock, excludeId): the loop, threading the id
\* counter. t is Date.now() during the call, rs[i] the random suffix drawn if
\* block i is split. Returns the result list and the counter afterwards.
RECURSIVE resolveFrom(_, _, _, _, _, _, _)
resolveFrom(bs, i, c, excludeId, t, ctr, rs) ==
  IF i > Len(bs) THEN [list |-> <<>>, ctr |-> ctr]
  ELSE LET b == bs[i]
           split == IsSplit(b, c, excludeId)
           piece == ResolveOne(b, c, excludeId, generateId(t, ctr, rs[i]))
           rest == resolveFrom(bs, i + 1, c, excludeId, t,
                               IF split THEN NextCounter(ctr) ELSE ctr, rs)
       IN [list |-> piece \o rest.list, ctr |-> rest.ctr]

resolveOverlaps(bs, c, excludeId, t, ctr, rs) == resolveFrom(bs, 1, c, excludeId, t, ctr, rs)

\* addBlock(blocks, newBlock) = [...resolveOverlaps(blocks, newBlock), newBlock]
addBlock(bs, nb, t, ctr, rs) ==
  LET r == resolveOverlaps(bs, nb, NoId, t, ctr, rs)
  IN [list |-> Append(r.list, nb), ctr |-> r.ctr]

\* eraseRange(blocks, layer, startMin, endMin)
eraseRange(bs, layer, startMin, endMin, t, ctr, rs) ==
  resolveOverlaps(bs, [layer |-> layer, startMin |-> startMin, endMin |-> endMin],
                  NoId, t, ctr, rs)

\* removeBlock(blocks, blockId)
RECURSIVE removeBlock(_, _)
removeBlock(bs, blockId) ==
  IF bs = <<>> THEN <<>>
  ELSE IF Head(bs).id = blockId THEN removeBlock(Tail(bs), blockId)
  ELSE <<Head(bs)>> \o removeBlock(Tail(bs), blockId)

\* updateBlock(blocks, blockId, updates): updates is a partial record
\* (here: the fields startMin and endMin).
updateBlock(bs, blockId, updates) ==
  [i \in 1..Len(bs) |->
     IF bs[i].id = blockId
       THEN [bs[i] EXCEPT !.startMin = updates.startMin, !.endMin = updates.endMin]
       ELSE bs[i]]

\* ------------------------------------------- stores/usePlannerStore -----
\* JSON.parse(JSON.stringify(state.blocks)): a deep copy in which properties whose
\* value is undefined are dropped.
JsonClone(m) ==
  [d \in DOMAIN m |->
     [i \in 1..Len(m[d]) |->
        [m[d][i] EXCEPT !.opt = IF @ = "undefined" THEN "absent" ELSE @]]]

\* Deep equality of two block collections (a property that is undefined equals a
\* missing one).
DeepEqual(m1, m2) == JsonClone(m1) = JsonClone(m2)

BlocksOf(m, d) == IF d \in DOMAIN m THEN m[d] ELSE <<>>

\* store.addBlock(block): create the date's list if missing, then push.
StoreAddBlock(m, block) ==
  LET d == block.dateISO
  IN [x \in DOMAIN m \cup {d} |-> IF x = d THEN Append(BlocksOf(m, d), block) ELSE m[x]]

\* store.updateBlock(blockId, updates): the first date holding the id.
StoreUpdateBlock(m, blockId, updates) ==
  IF \E d \in DOMAIN m : \E i \in 1..Len(m[d]) : m[d][i].id = blockId
    THEN LET d == CHOOSE x \in DOMAIN m : \E i \in 1..Len(m[x]) : m[x][i].id = blockId
             k == CHOOSE i \in 1..Len(m[d]) :
                    m[d][i].id = blockId /\ \A j \in 1..(i-1) : m[d][j].id # blockId
         IN [m EXCEPT ![d][k] = [@ EXCEPT !.startMin = updates.startMin,
                                          !.endMin = updates.endMin]]
    ELSE m

\* store.removeBlock(dateISO, blockId)
StoreRemoveBlock(m, d, blockId) ==
  IF d \in DOMAIN m THEN [m EXCEPT ![d] = removeBlock(@, blockId)] ELSE m

\* pushHistory: push a deep copy, clear future, drop the oldest beyond the cap.
PushNoCap(p, m) == Append(p, JsonClone(m))

PushNoClear(f) == f

PushedPast(p, m) ==
  LET q == Append(p, JsonClone(m))
  IN IF Len(q) > HistoryCap THEN Tail(q) ELSE q

PushedFuture(f) == <<>>

\* undo: nothing when past is empty; else future.unshift(copy of current),
\* blocks = past.pop().
UndoBlocksKeep(p, m) == m

UndoBlocks(p, m) == IF Len(p) = 0 THEN m ELSE p[Len(p)]

UndoPast(p) == IF Len(p) = 0 THEN p ELSE SubSeq(p, 1, Len(p) - 1)

UndoFuture(p, f, m) == IF Len(p) = 0 THEN f ELSE <<JsonClone(m)>> \o f

\* redo: nothing when future is empty; else past.push(copy of current),
\* blocks = future.shift().
RedoBlocksLast(f, m) == IF Len(f) = 0 THEN m ELSE f[Len(f)]

RedoBlocks(f, m) == IF Len(f) = 0 THEN m ELSE Head(f)

RedoFuture(f) == IF Len(f) = 0 THEN f ELSE Tail(f)

RedoPast(p, f, m) == IF Len(f) = 0 THEN p ELSE Append(p, JsonClone(m))

\* ------------------------------------------------ hooks/useDragHandler --
\* ------------------------------------------ App.old.tsx: the day grid ----
\* A cell id `${dateISO}|${HH}|${col}` is the pair <<hour, col>> (one date).
\* A cell is a record of its four keys; "absent" is a missing key, "undef" a
\* key holding undefined (deepCloneGrid writes such keys), "set" a value.
OldActivities == {"work", "rest", "study"}
OldCells == {<<DragRow, 0>>, <<DragRow, 1>>}
NoCell == <<-1, -1>>
EmptyCell == [execute |-> "absent", overlay |-> "absent",
              indicator |-> "absent", memos |-> "absent"]
CellAt(g, cellId) == IF cellId \in DOMAIN g THEN g[cellId] ELSE EmptyCell
KeyCount(cell) ==
  Cardinality({k \in {"execute", "overlay", "indicator", "memos"} : cell[k] # "absent"})

\* updateCell, given the updater's result: a cell without keys is deleted.
updateCell(g, cellId, updated) ==
  IF KeyCount(updated) = 0
    THEN [x \in DOMAIN g \ {cellId} |-> g[x]]
    ELSE [x \in DOMAIN g \cup {cellId} |-> IF x = cellId THEN updated ELSE g[x]]

\* (mutant) the overlay is written on every paint of a cell that has an execute.
PaintedAlwaysOverlay(cell, b) ==
  IF cell.execute = "absent" THEN [cell EXCEPT !.execute = b]
  ELSE [cell EXCEPT !.overlay = b]

\* (mutant) an overlay, once written, is kept.
PaintedFirstOverlayWins(cell, b) ==
  IF cell.execute = "absent" THEN [cell EXCEPT !.execute = b]
  ELSE IF cell.execute # b /\ cell.overlay = "absent" THEN [cell EXCEPT !.overlay = b]
  ELSE cell

\* the updater of paintCell
Painted(cell, b) ==
  IF cell.execute = "absent" THEN [cell EXCEPT !.execute = b]
  ELSE IF cell.execute # b THEN [cell EXCEPT !.overlay = b]
  ELSE cell

paintCell(g, cellId, b) == updateCell(g, cellId, Painted(CellAt(g, cellId), b))

eraseCell(g, cellId) ==
  IF cellId \notin DOMAIN g THEN g
  ELSE updateCell(g, cellId, [g[cellId] EXCEPT !.execute = "absent", !.overlay = "absent"])

snap10(min) == ((min + 5) \div 10) * 10

Max2(a, b) == IF a > b THEN a ELSE b
Min2(a, b) == IF a < b THEN a ELSE b

RECURSIVE paintRangeFrom(_, _, _, _)
paintRangeFrom(g, m, end, b) ==
  IF m >= end THEN g
  ELSE paintRangeFrom(paintCell(g, <<m \div 60, (m % 60) \div 10>>, b), m + 10, end, b)

paintRange(g, startMin, endMin, b) ==
  paintRangeFrom(g, Max2(0, snap10(startMin)), Min2(24 * 60, snap10(endMin)), b)

deepCloneGrid(g) ==
  [x \in DOMAIN g |->
     [g[x] EXCEPT !.indicator = IF @ = "set" THEN "set" ELSE "undef",
                  !.memos = IF @ = "set" THEN "set" ELSE "undef"]]

\* Deep equality of grids: a key holding undefined counts as a missing key.
GridNorm(g) ==
  [x \in DOMAIN g |->
     [g[x] EXCEPT !.indicator = IF @ = "undef" THEN "absent" ELSE @,
                  !.memos = IF @ = "undef" THEN "absent" ELSE @]]
GridDeepEqual(g1, g2) == GridNorm(g1) = GridNorm(g2)

\* pushSnapshot / onUndo / onRedo (the week grid, which no modelled operation
\* changes, is left out of the snapshot).
Snapshot(g, t, b) == [grid |-> deepCloneGrid(g), activeTool |-> t, activeBrush |-> b]
pushSnapshot(us, g, t, b) == Append(us, Snapshot(g, t, b))

NoSeg == [row |-> -1, startCol |-> -1, endCol |-> -1, layer |-> "none", activityId |-> "none"]
OldNoDrag == [isDown |-> FALSE, mode |-> "null", brush |-> "work", activeCells |-> {},
              startCellId |-> NoCell, lastCellId |-> NoCell, pointerId |-> -1]

\* DayTimeline with no resize under way: resizeRef null ("none"), no fine mode,
\* no timer, no overlay.
NoFineOverlay == [shown |-> FALSE, side |-> "none", minute |-> 0, locked |-> FALSE]
FineUiIdle ==
  [resizeRef |-> "none", fineActive |-> FALSE, fineSide |-> "none",
   timer |-> [armed |-> FALSE, due |-> 0], overlay |-> NoFineOverlay]

\* One date on screen and no grid stored for any other date.
DatesIdle == date = "d1" /\ dayStore = << >>

\* App.old.tsx after construction, with nothing loaded.
OldIdle ==
  /\ DatesIdle
  /\ dayGrid = << >>
  /\ undoStack = << >> /\ redoStack = << >>
  /\ activeTool = "execute" /\ activeBrush = "work"
  /\ dragRef = OldNoDrag
  /\ pendingStartCell = NoCell
  /\ longPressTimer = [armed |-> FALSE, cellId |-> NoCell, due |-> 0]
  /\ longPressStart = [set |-> FALSE, cellId |-> NoCell]
  /\ checklistDialog = [open |-> FALSE, startMin |-> 0, endMin |-> 0, targetCell |-> NoCell]
  /\ selectedSegment = NoSeg
  /\ resizeArmed = FALSE
  /\ resizeState = [active |-> FALSE, base |-> NoSeg]
  /\ fineBoundsStore = << >>
  /\ fineUi = FineUiIdle

OldUnchanged == UNCHANGED oldVars

NoDrag == [isDown |-> FALSE, startRow |-> -1, startCol |-> -1,
           lastRow |-> -1, lastCol |-> -1, activeCells |-> {}]

DragCells == {<<DragRow, c>> : c \in 0..MaxDragCol}

\* The variables the store/drag specification leaves alone.
PureUnchanged == UNCHANGED <<pin, pout, obs>> /\ OldUnchanged

\* handlePointerDown(row, col): pushHistory(), then the drag state is armed with
\* the pressed cell already in activeCells.
handlePointerDown(row, col) ==
  /\ past' = PushedPast(past, blocks)
  /\ future' = PushedFuture(future)
  /\ dragState' = [isDown |-> TRUE, startRow |-> row, startCol |-> col,
                   lastRow |-> row, lastCol |-> col, activeCells |-> {<<row, col>>}]
  /\ UNCHANGED <<blocks, tool, brush, idCounter, now>>

HandlePointerDown(row, col) ==
  /\ Len(past) < MaxPast
  /\ handlePointerDown(row, col)
  /\ PureUnchanged

\* handlePointerEnter(row, col, e): t is Date.now() at the call, r the random
\* suffix of the new id, buttons whether e.buttons & 1.
ButtonHeldAlways(buttons) == TRUE

\* e.buttons & 1: the primary button is held at the event.
ButtonHeld(buttons) == buttons

handlePointerEnter(row, col, buttons, t, r) ==
  /\ now' = t
  /\ IF ~dragState.isDown
       THEN UNCHANGED <<dragState, blocks, idCounter>>
     ELSE IF ~ButtonHeld(buttons)
       THEN /\ dragState' = [dragState EXCEPT !.isDown = FALSE]
            /\ UNCHANGED <<blocks, idCounter>>
     ELSE IF <<row, col>> \in dragState.activeCells
       THEN UNCHANGED <<dragState, blocks, idCounter>>
     ELSE /\ dragState' = [dragState EXCEPT !.lastRow = row, !.lastCol = col,
                                            !.activeCells = @ \cup {<<row, col>>}]
          /\ IF tool \in {"PAINT", "execute"}
               THEN /\ blocks' = StoreAddBlock(blocks,
                          createBlock(generateId(t, idCounter, r), "d1",
                                      row * 60 + col * 10, row * 60 + col * 10 + 10,
                                      brush, "execute"))
                    /\ idCounter' = NextCounter(idCounter)
               ELSE UNCHANGED <<blocks, idCounter>>
  /\ UNCHANGED <<past, future, tool, brush>>

HandlePointerEnter(row, col, buttons, t, r) ==
  /\ idCounter < MaxIds
  /\ handlePointerEnter(row, col, buttons, t, r)
  /\ PureUnchanged

\* handlePointerUp: the drag state is reset (the NEW_EVENT branch computes bounds
\* and does nothing with them).
handlePointerUp ==
  /\ dragState' = NoDrag
  /\ UNCHANGED <<blocks, past, future, tool, brush, idCounter, now>>

HandlePointerUp ==
  /\ handlePointerUp
  /\ PureUnchanged

\* undo() of the store, as the toolbar and the keyboard shortcut call it.
undo ==
  /\ blocks' = UndoBlocks(past, blocks)
  /\ future' = UndoFuture(past, future, blocks)
  /\ past' = UndoPast(past)
  /\ UNCHANGED <<tool, brush, idCounter, now, dragState>>

Undo ==
  /\ undo
  /\ PureUnchanged

Redo ==
  /\ blocks' = RedoBlocks(future, blocks)
  /\ past' = RedoPast(past, future, blocks)
  /\ future' = RedoFuture(future)
  /\ UNCHANGED <<tool, brush, idCounter, now, dragState>>
  /\ PureUnchanged

SetTool(tl) ==
  /\ tool' = tl
  /\ UNCHANGED <<blocks, past, future, brush, idCounter, now, dragState>>
  /\ PureUnchanged

SetBrush(a) ==
  /\ brush' = a
  /\ UNCHANGED <<blocks, past, future, tool, idCounter, now, dragState>>
  /\ PureUnchanged

RemoveBlock(d, i) ==
  /\ d \in DOMAIN blocks /\ i \in 1..Len(blocks[d])
  /\ blocks' = StoreRemoveBlock(blocks, d, blocks[d][i].id)
  /\ UNCHANGED <<past, future, tool, brush, idCounter, now, dragState>>
  /\ PureUnchanged

\* updateBlock with updates {startMin, endMin}: the block is moved to cell (row, col).
UpdateBlock(d, i, row, col) ==
  /\ d \in DOMAIN blocks /\ i \in 1..Len(blocks[d])
  /\ blocks' = StoreUpdateBlock(blocks, blocks[d][i].id,
                  [startMin |-> row * 60 + col * 10, endMin |-> row * 60 + col * 10 + 10])
  /\ UNCHANGED <<past, future, tool, brush, idCounter, now, dragState>>
  /\ PureUnchanged

StoreInit ==
  /\ blocks = << >>
  /\ past = << >>
  /\ future = << >>
  /\ tool \in ToolChoices
  /\ brush \in ActivityIds
  /\ idCounter = 0
  /\ now = 0
  /\ dragState = NoDrag

\* The pure-function harness and the observation variables at rest.
PureIdle ==
  /\ pin = [blocks |-> << >>]
  /\ pout = [done |-> FALSE]
  /\ obs = [run |-> 0]

Init ==
  /\ StoreInit
  /\ PureIdle
  /\ OldIdle

Next ==
  \/ \E c \in DragCells : HandlePointerDown(c[1], c[2])
  \/ \E c \in DragCells, b \in BOOLEAN, t \in now..MaxNow, r \in DragSuffixes :
       HandlePointerEnter(c[1], c[2], b, t, r)
  \/ HandlePointerUp
  \/ Undo
  \/ Redo
  \/ \E d \in Dates, i \in 1..MaxIds : RemoveBlock(d, i)
  \/ \E d \in Dates, i \in 1..MaxIds, c \in DragCells : UpdateBlock(d, i, c[1], c[2])

Spec == Init /\ [][Next]_vars

\* Two blocks of one date and layer whose [startMin, endMin) ranges intersect.
OverlapIn(bs) ==
  \E i, j \in 1..Len(bs) :
    /\ i < j
    /\ bs[i].layer = bs[j].layer
    /\ bs[i].dateISO = bs[j].dateISO
    /\ bs[i].startMin < bs[j].endMin /\ bs[j].startMin < bs[i].endMin

\* C1: after any sequence of paint gestures, removeBlock, updateBlock, undo and
\* redo, no two blocks stored under the same date and layer intersect.
C1_NoOverlapInStore == \A d \in DOMAIN blocks : ~OverlapIn(blocks[d])

\* ------------------------------------------ pure functions: harness -----
PureTimes == {0, 10, 20, 30}
PureLayers == {"execute", "overlay"}

\* The blocks a list may hold: valid ranges over PureTimes. Ids are given by
\* position: block i was created by the i-th generateId call, at time 0.
PureShapes ==
  {[startMin |-> s, endMin |-> e, layer |-> l] :
     s \in PureTimes, e \in PureTimes, l \in PureLayers}

ValidShapes == {x \in PureShapes : x.startMin < x.endMin}

ShapeLists == UNION {[1..n -> ValidShapes] : n \in 0..MaxLen}

BlockOfShape(x, i) ==
  createBlock(<<0, i, "a">>, "d1", x.startMin, x.endMin, "work", x.layer)

\* idCounter at the call: in the millisecond of the earlier calls it is their
\* count; later it may also have been reset (page load) or be about to wrap.
PureCounters(n, t) == IF t = 0 THEN {n} ELSE {0, n, IdCounterMod - 1}

PureCandidates == {x \in PureShapes : x.layer = "execute"}

PureInit ==
  /\ \E sl \in ShapeLists, c \in PureCandidates, t \in 0..1, r \in RandomSuffixes,
        ex \in BOOLEAN :
       \E ctr \in PureCounters(Len(sl), t) :
         pin = [blocks |-> [i \in 1..Len(sl) |-> BlockOfShape(sl[i], i)],
                cand |-> createBlock(<<t, IdCounterMod, r>>, "d1", c.startMin, c.endMin,
                                     "rest", c.layer),
                excludeId |-> IF ex /\ Len(sl) > 0 THEN <<0, 1, "a">> ELSE NoId,
                t |-> t, ctr |-> ctr,
                rs |-> [i \in 1..Len(sl) |-> r]]
  /\ pout = [done |-> FALSE, list |-> << >>, ctr |-> 0, added |-> << >>, erased |-> << >>]
  /\ obs = [run |-> 0]
  /\ blocks = << >> /\ past = << >> /\ future = << >>
  /\ tool = "PAINT" /\ brush = "work" /\ idCounter = 0 /\ now = 0
  /\ dragState = NoDrag
  /\ OldIdle

\* Apply resolveOverlaps (with excludeId), addBlock and eraseRange to the input.
PureApply ==
  /\ ~pout.done
  /\ LET r == resolveOverlaps(pin.blocks, pin.cand, pin.excludeId, pin.t, pin.ctr, pin.rs)
         a == addBlock(pin.blocks, pin.cand, pin.t, pin.ctr, pin.rs)
         e == eraseRange(pin.blocks, pin.cand.layer, pin.cand.startMin, pin.cand.endMin,
                         pin.t, pin.ctr, pin.rs)
     IN pout' = [done |-> TRUE, list |-> r.list, ctr |-> r.ctr, added |-> a.list,
                 erased |-> e.list]
  /\ UNCHANGED <<pin, obs, blocks, past, future, tool, brush, idCounter, now, dragState>>
  /\ OldUnchanged

PureNext == PureApply

SpecPure == PureInit /\ [][PureNext]_vars

\* Two ranges share a minute.
ShareMinute(s1, e1, s2, e2) ==
  \E m \in 0..40 : s1 <= m /\ m < e1 /\ s2 <= m /\ m < e2

NoOverlapPerLayer(bs) ==
  \A i, j \in 1..Len(bs) :
    (i < j /\ bs[i].layer = bs[j].layer)
      => ~ShareMinute(bs[i].startMin, bs[i].endMin, bs[j].startMin, bs[j].endMin)

IsBlock(b) ==
  /\ DOMAIN b = {"id", "dateISO", "startMin", "endMin", "activityId", "layer", "opt"}
  /\ b.startMin \in Int /\ b.endMin \in Int

StrictlyInside(c, b, excludeId) ==
  /\ b.layer = c.layer /\ b.id # excludeId
  /\ c.startMin > b.startMin /\ c.endMin < b.endMin

\* How many blocks the result holds for input block b (from the interval
\* relation of b and the candidate).
Pieces(c, b, excludeId) ==
  IF b.layer # c.layer \/ b.id = excludeId THEN 1
  ELSE IF ~ShareMinute(c.startMin, c.endMin, b.startMin, b.endMin)
          /\ ~StrictlyInside(c, b, excludeId) THEN 1
  ELSE IF StrictlyInside(c, b, excludeId) THEN 2
  ELSE IF c.startMin <= b.startMin /\ c.endMin >= b.endMin THEN 0
  ELSE 1

RECURSIVE PiecesBefore(_, _, _, _)
PiecesBefore(bs, i, c, excludeId) ==
  IF i <= 1 THEN 0
  ELSE PiecesBefore(bs, i - 1, c, excludeId) + Pieces(c, bs[i - 1], excludeId)

IdCount(bs, id) == Cardinality({k \in 1..Len(bs) : bs[k].id = id})

\* C3: a block b that strictly contains the candidate (a range, startMin <=
\* endMin) is replaced by exactly two blocks: the left remainder [b.startMin,
\* candidate.startMin) with b's id, then the right remainder [candidate.endMin,
\* b.endMin) with a new id that differs from b's id and from every other id of
\* the input and of the result.
C3_SplitKeepsLeftId ==
  (pout.done /\ pin.cand.startMin <= pin.cand.endMin) =>
    /\ Len(pout.list) = PiecesBefore(pin.blocks, Len(pin.blocks) + 1, pin.cand, pin.excludeId)
    /\ \A i \in 1..Len(pin.blocks) :
         StrictlyInside(pin.cand, pin.blocks[i], pin.excludeId) =>
           LET b == pin.blocks[i]
               k == PiecesBefore(pin.blocks, i, pin.cand, pin.excludeId) + 1
               left == pout.list[k]
               right == pout.list[k + 1]
           IN /\ left = [b EXCEPT !.endMin = pin.cand.startMin]
              /\ right = [b EXCEPT !.startMin = pin.cand.endMin, !.id = right.id]
              /\ right.id # b.id
              /\ IdCount(pin.blocks, right.id) = 0
              /\ IdCount(pout.list, right.id) = 1

\* Two blocks of the list are split by one candidate.
C3_Witness ==
  /\ pout.done
  /\ pin.cand.startMin < pin.cand.endMin
  /\ Len(pin.blocks) = 2
  /\ \A i \in 1..2 : StrictlyInside(pin.cand, pin.blocks[i], pin.excludeId)
  /\ Len(pout.list) = 4

\* --------------------------------------- history: the scripted run ------
\* A run of the history of one of the two implementations (obs.impl): N times
\* (push a snapshot, then a mutation), then undo calls, then possibly one redo.
\* obs records the collection at the start (b0), the number of pushes and undo
\* calls, and the state just before the last undo.
HistCell == <<DragRow, 0>>

HistMutated(m, id) ==
  IF BlocksOf(m, "d1") = << >>
    THEN StoreAddBlock(m, createBlock(id, "d1", DragRow * 60, DragRow * 60 + 10,
                                      "work", "execute"))
    ELSE StoreRemoveBlock(m, "d1", m["d1"][1].id)

OldHistMutated(g) ==
  IF CellAt(g, HistCell).execute = "absent" THEN paintCell(g, HistCell, "work")
  ELSE eraseCell(g, HistCell)

HistObs(impl, b0) ==
  [impl |-> impl, phase |-> "start", b0 |-> b0, pushes |-> 0, undos |-> 0,
   preBlocks |-> b0, prePast |-> << >>, effective |-> FALSE]

HistInit ==
  /\ DatesIdle
  /\ tool = "PAINT" /\ brush = "work" /\ idCounter = 0 /\ now = 0
  /\ dragState = NoDrag
  /\ pin = [blocks |-> << >>]
  /\ pout = [done |-> FALSE]
  /\ past = << >> /\ future = << >>
  /\ undoStack = << >> /\ redoStack = << >>
  /\ activeTool = "execute" /\ activeBrush = "work"
  /\ dragRef = OldNoDrag
  /\ pendingStartCell = NoCell
  /\ longPressTimer = [armed |-> FALSE, cellId |-> NoCell, due |-> 0]
  /\ longPressStart = [set |-> FALSE, cellId |-> NoCell]
  /\ checklistDialog = [open |-> FALSE, startMin |-> 0, endMin |-> 0, targetCell |-> NoCell]
  /\ selectedSegment = NoSeg
  /\ resizeArmed = FALSE
  /\ resizeState = [active |-> FALSE, base |-> NoSeg]
  /\ fineBoundsStore = << >>
  /\ fineUi = FineUiIdle
  /\ \E impl \in {"store", "legacy"}, filled \in BOOLEAN :
       /\ blocks = IF impl = "store" /\ filled
                     THEN StoreAddBlock(<< >>, createBlock(<<0, IdCounterMod, "a">>, "d1",
                                          DragRow * 60, DragRow * 60 + 10, "rest", "execute"))
                     ELSE << >>
       /\ dayGrid = IF impl = "legacy" /\ filled
                      THEN updateCell(<< >>, HistCell,
                                      [EmptyCell EXCEPT !.execute = "rest", !.indicator = "set"])
                      ELSE << >>
       /\ obs = HistObs(impl, IF impl = "store" THEN blocks ELSE dayGrid)

HistUnchanged ==
  UNCHANGED <<date, dayStore,
              tool, brush, now, dragState, pin, pout, activeTool, activeBrush, dragRef,
              pendingStartCell, longPressTimer, longPressStart, checklistDialog,
              selectedSegment, resizeArmed, resizeState, fineBoundsStore, fineUi>>
HistStoreOnly == obs.impl = "store" /\ UNCHANGED <<dayGrid, undoStack, redoStack>>
HistLegacyOnly == obs.impl = "legacy" /\ UNCHANGED <<blocks, past, future, idCounter>>

HistPush ==
  /\ HistStoreOnly
  /\ obs.phase \in {"start", "mutated"}
  /\ obs.pushes < MaxScript
  /\ past' = PushedPast(past, blocks)
  /\ future' = PushedFuture(future)
  /\ obs' = [obs EXCEPT !.phase = "pushed", !.pushes = @ + 1]
  /\ UNCHANGED <<blocks, idCounter>>
  /\ HistUnchanged

HistMutate ==
  /\ HistStoreOnly
  /\ obs.phase = "pushed"
  /\ blocks' = HistMutated(blocks, generateId(now, idCounter, "a"))
  /\ idCounter' = IF BlocksOf(blocks, "d1") = << >> THEN NextCounter(idCounter) ELSE idCounter
  /\ obs' = [obs EXCEPT !.phase = "mutated"]
  /\ UNCHANGED <<past, future>>
  /\ HistUnchanged

HistUndo ==
  /\ HistStoreOnly
  /\ obs.phase \in {"mutated", "undone"}
  /\ obs.undos < obs.pushes
  /\ blocks' = UndoBlocks(past, blocks)
  /\ future' = UndoFuture(past, future, blocks)
  /\ past' = UndoPast(past)
  /\ obs' = [obs EXCEPT !.phase = "undone", !.undos = @ + 1,
                        !.preBlocks = blocks, !.prePast = past,
                        !.effective = (Len(past) > 0)]
  /\ UNCHANGED idCounter
  /\ HistUnchanged

HistRedo ==
  /\ HistStoreOnly
  /\ obs.phase = "undone"
  /\ blocks' = RedoBlocks(future, blocks)
  /\ past' = RedoPast(past, future, blocks)
  /\ future' = RedoFuture(future)
  /\ obs' = [obs EXCEPT !.phase = "redone"]
  /\ UNCHANGED idCounter
  /\ HistUnchanged

\* App.old.tsx: pushSnapshot, a mutation of the grid, onUndo, onRedo.
OldHistPush ==
  /\ HistLegacyOnly
  /\ obs.phase \in {"start", "mutated"}
  /\ obs.pushes < MaxScript
  /\ undoStack' = pushSnapshot(undoStack, dayGrid, activeTool, activeBrush)
  /\ redoStack' = << >>
  /\ obs' = [obs EXCEPT !.phase = "pushed", !.pushes = @ + 1]
  /\ UNCHANGED dayGrid
  /\ HistUnchanged

OldHistMutate ==
  /\ HistLegacyOnly
  /\ obs.phase = "pushed"
  /\ dayGrid' = OldHistMutated(dayGrid)
  /\ obs' = [obs EXCEPT !.phase = "mutated"]
  /\ UNCHANGED <<undoStack, redoStack>>
  /\ HistUnchanged

OldHistUndo ==
  /\ HistLegacyOnly
  /\ obs.phase \in {"mutated", "undone"}
  /\ obs.undos < obs.pushes
  /\ IF Len(undoStack) = 0
       THEN UNCHANGED <<dayGrid, undoStack, redoStack>>
       ELSE /\ undoStack' = SubSeq(undoStack, 1, Len(undoStack) - 1)
            /\ redoStack' = pushSnapshot(redoStack, dayGrid, activeTool, activeBrush)
            /\ dayGrid' = undoStack[Len(undoStack)].grid
  /\ obs' = [obs EXCEPT !.phase = "undone", !.undos = @ + 1,
                        !.preBlocks = dayGrid, !.prePast = undoStack,
                        !.effective = (Len(undoStack) > 0)]
  /\ HistUnchanged

OldHistRedo ==
  /\ HistLegacyOnly
  /\ obs.phase = "undone"
  /\ IF Len(redoStack) = 0
       THEN UNCHANGED <<dayGrid, undoStack, redoStack>>
       ELSE /\ redoStack' = SubSeq(redoStack, 1, Len(redoStack) - 1)
            /\ undoStack' = pushSnapshot(undoStack, dayGrid, activeTool, activeBrush)
            /\ dayGrid' = redoStack[Len(redoStack)].grid
  /\ obs' = [obs EXCEPT !.phase = "redone"]
  /\ HistUnchanged

HistNext ==
  \/ HistPush \/ HistMutate \/ HistUndo \/ HistRedo
  \/ OldHistPush \/ OldHistMutate \/ OldHistUndo \/ OldHistRedo

SpecHist == HistInit /\ [][HistNext]_vars

NUndosDone == obs.phase = "undone" /\ obs.pushes >= 1 /\ obs.undos = obs.pushes

\* The current collection of the implementation under run is deep-equal to b.
HistCurrentIs(b) ==
  IF obs.impl = "store" THEN DeepEqual(blocks, b) ELSE GridDeepEqual(dayGrid, b)

\* C4 (as stated): for every N >= 1, N times (push a snapshot, mutate) and then N
\* undo calls yield a collection deep-equal to the one at the start.
C4_Original == NUndosDone => HistCurrentIs(obs.b0)

\* C4 (amended): the same for every N from 1 to the history cap (50).
C4_UndoAllRestores == (NUndosDone /\ obs.pushes <= HistoryCap) => HistCurrentIs(obs.b0)

\* A run of as many pushes as the store's cap allows has been undone completely.
C4_Witness ==
  /\ obs.impl = "store" /\ NUndosDone
  /\ obs.pushes = HistoryCap /\ Len(future) = HistoryCap

\* C5: an undo (with something to undo) followed immediately by redo restores
\* the collection that was current just before the undo and leaves the undo
\* stack as it was before the undo.
C5_UndoRedoRestores ==
  (obs.phase = "redone" /\ obs.effective)
    => /\ HistCurrentIs(obs.preBlocks)
       /\ (IF obs.impl = "store" THEN past ELSE undoStack) = obs.prePast

\* A redo has followed the second of two undos, after three pushes.
C5_Witness ==
  /\ obs.impl = "store" /\ obs.phase = "redone" /\ obs.effective
  /\ obs.pushes = 3 /\ obs.undos = 2 /\ Len(past) = 2 /\ Len(future) = 1

\* ------------------------------------- App.old.tsx: painting the grid ----
\* paintCell, paintRange and eraseCell applied in any order to a two-cell grid.
\* obs.paints records, per cell, the brushes painted since the cell was last
\* empty; obs.last the last operation and the painted cell as it was before.
GridRangeStarts == {DragRow * 60 - 4, DragRow * 60 + 10}
GridRangeEnds == {DragRow * 60 + 14, DragRow * 60 + 20}
RangeCells(startMin, endMin) ==
  {c \in OldCells :
     /\ c[1] * 60 + c[2] * 10 >= Max2(0, snap10(startMin))
     /\ c[1] * 60 + c[2] * 10 < Min2(24 * 60, snap10(endMin))}

GridInit ==
  /\ DatesIdle
  /\ StoreInit
  /\ tool = "PAINT" /\ brush = "work"
  /\ pin = [blocks |-> << >>]
  /\ pout = [done |-> FALSE]
  /\ \E withIndicator \in SUBSET {HistCell} :
       dayGrid = [c \in withIndicator |-> [EmptyCell EXCEPT !.indicator = "set"]]
  /\ undoStack = << >> /\ redoStack = << >>
  /\ activeTool = "execute" /\ activeBrush = "work"
  /\ dragRef = OldNoDrag
  /\ pendingStartCell = NoCell
  /\ longPressTimer = [armed |-> FALSE, cellId |-> NoCell, due |-> 0]
  /\ longPressStart = [set |-> FALSE, cellId |-> NoCell]
  /\ checklistDialog = [open |-> FALSE, startMin |-> 0, endMin |-> 0, targetCell |-> NoCell]
  /\ selectedSegment = NoSeg
  /\ resizeArmed = FALSE
  /\ resizeState = [active |-> FALSE, base |-> NoSeg]
  /\ fineBoundsStore = << >>
  /\ fineUi = FineUiIdle
  /\ obs = [paints |-> [c \in OldCells |-> << >>],
            last |-> [op |-> "none", cellId |-> NoCell, brush |-> "none", pre |-> EmptyCell]]

GridUnchanged ==
  UNCHANGED <<date, dayStore,
              blocks, past, future, tool, brush, idCounter, now, dragState, pin, pout,
              undoStack, redoStack, activeTool, activeBrush, dragRef, pendingStartCell,
              longPressTimer, longPressStart, checklistDialog, selectedSegment,
              resizeArmed, resizeState, fineBoundsStore, fineUi>>

PaintCell(cellId, b) ==
  /\ Len(obs.paints[cellId]) < MaxPaints
  /\ dayGrid' = paintCell(dayGrid, cellId, b)
  /\ obs' = [paints |-> [obs.paints EXCEPT ![cellId] = Append(@, b)],
             last |-> [op |-> "paintCell", cellId |-> cellId, brush |-> b,
                       pre |-> CellAt(dayGrid, cellId)]]
  /\ GridUnchanged

PaintRange(startMin, endMin, b) ==
  /\ \A c \in RangeCells(startMin, endMin) : Len(obs.paints[c]) < MaxPaints
  /\ dayGrid' = paintRange(dayGrid, startMin, endMin, b)
  /\ obs' = [paints |-> [c \in OldCells |->
                           IF c \in RangeCells(startMin, endMin)
                             THEN Append(obs.paints[c], b) ELSE obs.paints[c]],
             last |-> [op |-> "paintRange", cellId |-> NoCell, brush |-> b,
                       pre |-> EmptyCell]]
  /\ GridUnchanged

EraseCell(cellId) ==
  /\ dayGrid' = eraseCell(dayGrid, cellId)
  /\ obs' = [paints |-> [obs.paints EXCEPT ![cellId] = << >>],
             last |-> [op |-> "eraseCell", cellId |-> cellId, brush |-> "none",
                       pre |-> EmptyCell]]
  /\ GridUnchanged

GridNext ==
  \/ \E c \in OldCells, b \in OldActivities : PaintCell(c, b)
  \/ \E s \in GridRangeStarts, e \in GridRangeEnds, b \in OldActivities : PaintRange(s, e, b)
  \/ \E c \in OldCells : EraseCell(c)

SpecGrid == GridInit /\ [][GridNext]_vars

\* C6: paintCell(cell, A) on a cell whose execute already is A leaves the
\* cell's execute, overlay and indicator as they were.
C6_PaintSameIsNoop ==
  (obs.last.op = "paintCell" /\ obs.last.pre.execute = obs.last.brush)
    => /\ obs.last.cellId \in DOMAIN dayGrid
       /\ dayGrid[obs.last.cellId].execute = obs.last.pre.execute
       /\ dayGrid[obs.last.cellId].overlay = obs.last.pre.overlay
       /\ dayGrid[obs.last.cellId].indicator = obs.last.pre.indicator

\* A was just painted again on a cell holding execute A, no overlay and an indicator.
C6_Witness ==
  /\ obs.last.op = "paintCell" /\ obs.last.pre.execute = obs.last.brush
  /\ obs.last.pre.overlay = "absent" /\ obs.last.pre.indicator = "set"

\* The last brush of a paint sequence that differs from its first, if any.
RECURSIVE LastOther(_, _)
LastOther(seq, first) ==
  IF seq = << >> THEN "absent"
  ELSE IF seq[Len(seq)] # first THEN seq[Len(seq)]
  ELSE LastOther(SubSeq(seq, 1, Len(seq) - 1), first)

\* C7: after paints a1..an on an initially empty cell, execute = a1 and
\* overlay = the last ai different from a1 (no overlay when all equal a1).
C7_OverlayLastWriteWins ==
  \A c \in OldCells :
    obs.paints[c] # << >>
      => /\ c \in DOMAIN dayGrid
         /\ dayGrid[c].execute = obs.paints[c][1]
         /\ dayGrid[c].overlay = LastOther(obs.paints[c], obs.paints[c][1])

\* Three distinct activities were painted on one cell, the last through a
\* range paint over both cells.
C7_Witness ==
  /\ obs.paints[<<DragRow, 0>>] = <<"work", "rest", "study">>
  /\ obs.last.op = "paintRange"
  /\ obs.paints[<<DragRow, 1>>] = <<"work", "study">>

\* ------------------------------- storage.ts: migration of legacy grids ----
\* Object.keys(grid).sort(): ids `${date}|${HH}|${col}` of one date sort by
\* hour, then column.
CellKey(c) == c[1] * 10 + c[2]

RECURSIVE SortedCells(_)
SortedCells(S) ==
  IF S = {} THEN << >>
  ELSE LET m == CHOOSE x \in S : \A y \in S : CellKey(x) <= CellKey(y)
       IN <<m>> \o SortedCells(S \ {m})

NoCur == [startMin |-> -1, activityId |-> "none"]

\* One pass of migrateDayGridToBlocks over the sorted cells for one layer: the
\* list of segments [startMin, endMin, activityId].
RECURSIVE scanCells(_, _, _, _, _, _)
scanCells(cells, i, g, layer, cur, segs) ==
  IF i > Len(cells)
    THEN IF cur # NoCur
           THEN Append(segs, [startMin |-> cur.startMin,
                              endMin |-> cells[Len(cells)][1] * 60
                                           + (cells[Len(cells)][2] + 1) * 10,
                              activityId |-> cur.activityId])
           ELSE segs
    ELSE LET min == cells[i][1] * 60 + cells[i][2] * 10
             act == g[cells[i]][layer]
             closed == Append(segs, [startMin |-> cur.startMin, endMin |-> min,
                                     activityId |-> cur.activityId])
         IN IF act # "absent"
              THEN IF cur # NoCur /\ cur.activityId = act
                     THEN scanCells(cells, i + 1, g, layer, cur, segs)
                     ELSE scanCells(cells, i + 1, g, layer,
                                    [startMin |-> min, activityId |-> act],
                                    IF cur # NoCur THEN closed ELSE segs)
              ELSE IF cur # NoCur
                     THEN scanCells(cells, i + 1, g, layer, NoCur, closed)
                     ELSE scanCells(cells, i + 1, g, layer, NoCur, segs)

MigratedBlocks(segs, layer, prefix) ==
  [k \in 1..Len(segs) |->
     [id |-> <<prefix, segs[k].startMin>>, dateISO |-> "d1",
      startMin |-> segs[k].startMin, endMin |-> segs[k].endMin,
      activityId |-> segs[k].activityId, layer |-> layer]]

\* migrateDayGridToBlocks for one date: execute blocks, then overlay blocks.
migrateDayGridToBlocks(g) ==
  LET cells == SortedCells(DOMAIN g)
  IN MigratedBlocks(scanCells(cells, 1, g, "execute", NoCur, << >>), "execute", "migrated_exec")
       \o MigratedBlocks(scanCells(cells, 1, g, "overlay", NoCur, << >>), "overlay",
                         "migrated_overlay")

\* segments.ts blocksToGrid: every block fills its 10-minute cells.
RECURSIVE fillCells(_, _, _)
fillCells(g, b, currentMin) ==
  IF currentMin >= b.endMin THEN g
  ELSE LET cellId == <<currentMin \div 60, (currentMin % 60) \div 10>>
           cell == CellAt(g, cellId)
           filled == IF b.layer = "execute" THEN [cell EXCEPT !.execute = b.activityId]
                     ELSE IF b.layer = "overlay" THEN [cell EXCEPT !.overlay = b.activityId]
                     ELSE cell
       IN fillCells([x \in DOMAIN g \cup {cellId} |-> IF x = cellId THEN filled ELSE g[x]],
                    b, currentMin + 10)

RECURSIVE blocksToGridFrom(_, _, _, _)
blocksToGridFrom(bs, i, dateISO, g) ==
  IF i > Len(bs) THEN g
  ELSE blocksToGridFrom(bs, i + 1, dateISO,
                        IF bs[i].dateISO # dateISO THEN g ELSE fillCells(g, bs[i], bs[i].startMin))

blocksToGrid(bs, dateISO) == blocksToGridFrom(bs, 1, dateISO, << >>)

\* Legacy grids over three cells of one hour: a cell is missing, or present with
\* any execute and overlay (a cell with neither holds only an indicator).
MigCells == {<<DragRow, 0>>, <<DragRow, 1>>, <<DragRow, 2>>}
MigActs == {"absent", "work", "rest"}
MigGrids ==
  UNION {[S -> {[EmptyCell EXCEPT !.execute = e, !.overlay = o,
                                  !.indicator = IF e = "absent" /\ o = "absent"
                                                  THEN "set" ELSE "absent"] :
                  e \in MigActs, o \in MigActs}] : S \in SUBSET MigCells}

MigInit ==
  /\ StoreInit
  /\ tool = "PAINT" /\ brush = "work"
  /\ OldIdle
  /\ pin \in {[grid |-> g] : g \in MigGrids}
  /\ pout = [done |-> FALSE, blocks |-> << >>, grid |-> << >>]
  /\ obs = [run |-> 0]

\* migrate the grid, then project the migrated blocks back to a grid
MigApply ==
  /\ ~pout.done
  /\ LET bs == migrateDayGridToBlocks(pin.grid)
     IN pout' = [done |-> TRUE, blocks |-> bs, grid |-> blocksToGrid(bs, "d1")]
  /\ UNCHANGED <<pin, obs, blocks, past, future, tool, brush, idCounter, now, dragState>>
  /\ OldUnchanged

MigNext == MigApply

SpecMig == MigInit /\ [][MigNext]_vars

\* C8: the grid projected from the migrated blocks gives every 10-minute cell
\* the execute and overlay activity of the legacy grid, and nothing to cells
\* that were empty.
C8_MigrationRoundTrip ==
  pout.done
    => \A c \in MigCells \cup DOMAIN pout.grid :
         /\ CellAt(pout.grid, c).execute = CellAt(pin.grid, c).execute
         /\ CellAt(pout.grid, c).overlay = CellAt(pin.grid, c).overlay

\* ------------------------------------------- App.old.tsx: resizing ------
segmentKey(seg) ==
  <<(StartHour + seg.row) % 24, seg.layer, seg.activityId, seg.startCol, seg.endCol>>

defaultFineBounds(seg) == [startMinute |-> seg.startCol * 10, endMinute |-> (seg.endCol + 1) * 10]

RECURSIVE ExpandLeft(_, _, _, _, _)
ExpandLeft(g, hour, layer, actId, startCol) ==
  IF startCol > 0 /\ CellAt(g, <<hour, startCol - 1>>)[layer] = actId
    THEN ExpandLeft(g, hour, layer, actId, startCol - 1)
    ELSE startCol

RECURSIVE ExpandRight(_, _, _, _, _)
ExpandRight(g, hour, layer, actId, endCol) ==
  IF endCol < NumCols - 1 /\ CellAt(g, <<hour, endCol + 1>>)[layer] = actId
    THEN ExpandRight(g, hour, layer, actId, endCol + 1)
    ELSE endCol

SegmentOf(g, cellId, layer) ==
  [row |-> (cellId[1] - StartHour + 24) % 24,
   startCol |-> ExpandLeft(g, cellId[1], layer, CellAt(g, cellId)[layer], cellId[2]),
   endCol |-> ExpandRight(g, cellId[1], layer, CellAt(g, cellId)[layer], cellId[2]),
   layer |-> layer, activityId |-> CellAt(g, cellId)[layer]]

findSegmentAtCell(g, cellId) ==
  IF CellAt(g, cellId).execute # "absent" THEN SegmentOf(g, cellId, "execute")
  ELSE IF CellAt(g, cellId).overlay # "absent" THEN SegmentOf(g, cellId, "overlay")
  ELSE NoSeg

\* pruneCell: TRUE when the cell is to be dropped
Pruned(cell) ==
  /\ cell.execute = "absent" /\ cell.overlay = "absent"
  /\ cell.indicator # "set" /\ cell.memos # "set"

\* handleResize: the span kept after clamping
ClampedStart(base, side, col) ==
  Max2(0, Min2(NumCols - 1, IF side = "start" THEN Min2(col, base.endCol) ELSE base.startCol))
ClampedEnd(base, side, col) ==
  Max2(ClampedStart(base, side, col),
       Min2(NumCols - 1, IF side = "end" THEN Max2(col, base.startCol) ELSE base.endCol))

\* (mutant) handleResize without the first loop: nothing outside the span is cleared
ResizedGridNoClear(g, base, cs, ce) ==
  LET hour == (StartHour + base.row) % 24
      span == {<<hour, c>> : c \in cs..ce}
  IN [cid \in DOMAIN g \cup span |->
        IF cid \in span THEN [CellAt(g, cid) EXCEPT ![base.layer] = base.activityId]
        ELSE g[cid]]

\* handleResize: the grid after the two loops over the columns of the hour
ResizedGrid(g, base, cs, ce) ==
  LET hour == (StartHour + base.row) % 24
      row == {<<hour, c>> : c \in 0..(NumCols - 1)}
      cleared(cid) == [g[cid] EXCEPT ![base.layer] = "absent"]
      dropped == {cid \in row \cap DOMAIN g :
                    /\ g[cid][base.layer] = base.activityId
                    /\ ~(cid[2] >= cs /\ cid[2] <= ce)
                    /\ Pruned(cleared(cid))}
      g1 == [cid \in DOMAIN g \ dropped |->
               IF cid \in row /\ g[cid][base.layer] = base.activityId
                  /\ ~(cid[2] >= cs /\ cid[2] <= ce)
                 THEN cleared(cid) ELSE g[cid]]
      span == {<<hour, c>> : c \in cs..ce}
  IN [cid \in DOMAIN g1 \cup span |->
        IF cid \in span THEN [CellAt(g1, cid) EXCEPT ![base.layer] = base.activityId]
        ELSE g1[cid]]

\* (mutant) handleFineResizeApply without the correction of an empty span
FineBoundsNoFix(bounds, base, side, minute, mode) ==
  LET snapped == IF mode = "snap" THEN snap10(minute) ELSE minute
      minStart == base.startCol * 10
      maxEnd == (base.endCol + 1) * 10
  IN [startMinute |-> IF side = "start" THEN Min2(Max2(minStart, snapped), maxEnd - 1)
                      ELSE bounds.startMinute,
      endMinute |-> IF side = "start" THEN bounds.endMinute
                    ELSE Max2(Min2(maxEnd, snapped), minStart + 1)]

\* (mutant) handleFineResizeApply without the clamp to the coarse window
FineBoundsNoClamp(bounds, base, side, minute, mode) ==
  LET snapped == IF mode = "snap" THEN snap10(minute) ELSE minute
      nextStart == IF side = "start" THEN snapped ELSE bounds.startMinute
      nextEnd == IF side = "start" THEN bounds.endMinute ELSE snapped
  IN [startMinute |-> nextStart,
      endMinute |-> IF nextEnd <= nextStart THEN nextStart + 1 ELSE nextEnd]

\* handleFineResizeApply: the bounds stored for the selected segment
FineBoundsNext(bounds, base, side, minute, mode) ==
  LET snapped == IF mode = "snap" THEN snap10(minute) ELSE minute
      minStart == base.startCol * 10
      maxEnd == (base.endCol + 1) * 10
      nextStart == IF side = "start" THEN Min2(Max2(minStart, snapped), maxEnd - 1)
                   ELSE bounds.startMinute
      nextEnd == IF side = "start" THEN bounds.endMinute
                 ELSE Max2(Min2(maxEnd, snapped), minStart + 1)
  IN [startMinute |-> nextStart,
      endMinute |-> IF nextEnd <= nextStart THEN Min2(maxEnd, nextStart + 1) ELSE nextEnd]

ResizeHour == StartHour
ResizeCells == {<<ResizeHour, c>> : c \in 0..(NumCols - 1)}
FineMinutes == {-1, 15, 25, 61}

\* work on columns 1-2 (with a rest overlay on column 2) and rest on column 4
ResizeGrid ==
  [cid \in {<<ResizeHour, 1>>, <<ResizeHour, 2>>, <<ResizeHour, 4>>} |->
     IF cid[2] = 1 THEN [EmptyCell EXCEPT !.execute = "work"]
     ELSE IF cid[2] = 2 THEN [EmptyCell EXCEPT !.execute = "work", !.overlay = "rest"]
     ELSE [EmptyCell EXCEPT !.execute = "rest", !.indicator = "set"]]

\* obs.fine when the last operation was not a fine commit
NoFineCommit == [side |-> "none", minute |-> 0, mode |-> "none"]

ResizeInit ==
  /\ DatesIdle
  /\ StoreInit
  /\ tool = "PAINT" /\ brush = "work"
  /\ pin = [blocks |-> << >>]
  /\ pout = [done |-> FALSE]
  /\ dayGrid = ResizeGrid
  /\ undoStack = << >> /\ redoStack = << >>
  /\ activeTool = "select" /\ activeBrush = "work"
  /\ dragRef = OldNoDrag
  /\ pendingStartCell = NoCell
  /\ longPressTimer = [armed |-> FALSE, cellId |-> NoCell, due |-> 0]
  /\ longPressStart = [set |-> FALSE, cellId |-> NoCell]
  /\ checklistDialog = [open |-> FALSE, startMin |-> 0, endMin |-> 0, targetCell |-> NoCell]
  /\ selectedSegment = NoSeg
  /\ resizeArmed = FALSE
  /\ resizeState = [active |-> FALSE, base |-> NoSeg]
  /\ fineBoundsStore = << >>
  /\ fineUi = FineUiIdle
  /\ obs = [ops |-> 0, last |-> "none", key |-> segmentKey(NoSeg), armedAfter |-> FALSE,
            hadEntry |-> FALSE, fine |-> NoFineCommit]

ResizeUnchanged ==
  UNCHANGED <<date, dayStore,
              blocks, past, future, tool, brush, idCounter, now, dragState, pin, pout,
              activeTool, activeBrush, dragRef, pendingStartCell, longPressTimer,
              longPressStart, checklistDialog, fineUi>>

\* onCellPointerDown with the select tool
SelectSegmentAt(cellId) ==
  /\ activeTool = "select"
  /\ selectedSegment' = findSegmentAtCell(dayGrid, cellId)
  /\ resizeArmed' = FALSE
  /\ resizeState' = [active |-> FALSE, base |-> NoSeg]
  /\ obs' = [obs EXCEPT !.fine = NoFineCommit, !.last = "select", !.armedAfter = FALSE]
  /\ UNCHANGED <<dayGrid, undoStack, redoStack, fineBoundsStore>>
  /\ ResizeUnchanged

HandleArmResize ==
  /\ resizeArmed' = (IF selectedSegment = NoSeg THEN resizeArmed ELSE TRUE)
  /\ obs' = [obs EXCEPT !.fine = NoFineCommit, !.last = "none", !.armedAfter = @ \/ selectedSegment # NoSeg]
  /\ UNCHANGED <<dayGrid, undoStack, redoStack, fineBoundsStore, selectedSegment, resizeState>>
  /\ ResizeUnchanged

\* (mutant) a selected segment can be resized whether armed or not
ResizeAllowedUnarmed(seg, armed) == seg # NoSeg

\* the guard of handleResize
ResizeAllowed(seg, armed) == seg # NoSeg /\ armed

\* handleResize(side, col): what it does to the application state
handleResize(side, col) ==
  /\ IF ~ResizeAllowed(selectedSegment, resizeArmed)
       THEN UNCHANGED <<dayGrid, undoStack, redoStack, fineBoundsStore, selectedSegment,
                        resizeState>>
       ELSE LET base == IF resizeState.active THEN resizeState.base ELSE selectedSegment
                cs == ClampedStart(base, side, col)
                ce == ClampedEnd(base, side, col)
                nextSeg == [base EXCEPT !.startCol = cs, !.endCol = ce]
                fb == [k \in DOMAIN fineBoundsStore \ {segmentKey(base)} |-> fineBoundsStore[k]]
            IN /\ resizeState' = [active |-> TRUE, base |-> base]
               /\ undoStack' = IF resizeState.active THEN undoStack
                               ELSE pushSnapshot(undoStack, dayGrid, activeTool, activeBrush)
               /\ redoStack' = IF resizeState.active THEN redoStack ELSE << >>
               /\ dayGrid' = ResizedGrid(dayGrid, base, cs, ce)
               /\ fineBoundsStore' =
                    [k \in DOMAIN fb \cup {segmentKey(nextSeg)} |->
                       IF k = segmentKey(nextSeg)
                         THEN [startMinute |-> cs * 10, endMinute |-> (ce + 1) * 10]
                         ELSE fb[k]]
               /\ selectedSegment' = nextSeg
  /\ UNCHANGED resizeArmed

HandleResize(side, col) ==
  /\ obs.ops < MaxResizeOps
  /\ handleResize(side, col)
  /\ obs' = IF ~ResizeAllowed(selectedSegment, resizeArmed)
              THEN [obs EXCEPT !.fine = NoFineCommit, !.last = IF selectedSegment # NoSeg THEN "refused" ELSE "none"]
              ELSE [obs EXCEPT !.fine = NoFineCommit, !.ops = @ + 1, !.last = "resize",
                               !.key = segmentKey(selectedSegment'),
                               !.hadEntry = segmentKey(resizeState'.base)
                                              \in DOMAIN fineBoundsStore]
  /\ ResizeUnchanged

HandleFineResizeApply(side, minute, mode) ==
  /\ obs.ops < MaxResizeOps
  /\ IF selectedSegment = NoSeg
       THEN /\ obs' = [obs EXCEPT !.fine = NoFineCommit, !.last = "none"]
            /\ UNCHANGED fineBoundsStore
       ELSE LET key == segmentKey(selectedSegment)
                bounds == IF key \in DOMAIN fineBoundsStore THEN fineBoundsStore[key]
                          ELSE defaultFineBounds(selectedSegment)
                nb == FineBoundsNext(bounds, selectedSegment, side, minute, mode)
            IN /\ fineBoundsStore' =
                    [k \in DOMAIN fineBoundsStore \cup {key} |->
                       IF k = key THEN nb ELSE fineBoundsStore[k]]
               /\ obs' = [obs EXCEPT !.ops = @ + 1, !.last = "fine", !.key = key,
                                     !.fine = [side |-> side, minute |-> minute,
                                               mode |-> mode]]
  /\ UNCHANGED <<dayGrid, undoStack, redoStack, selectedSegment, resizeArmed, resizeState>>
  /\ ResizeUnchanged

\* pointerup or pointercancel anywhere: the window listener ends the resize drag
ResizePointerUp ==
  /\ resizeState.active
  /\ resizeState' = [active |-> FALSE, base |-> NoSeg]
  /\ obs' = [obs EXCEPT !.fine = NoFineCommit, !.last = "none"]
  /\ UNCHANGED <<dayGrid, undoStack, redoStack, fineBoundsStore, selectedSegment, resizeArmed>>
  /\ ResizeUnchanged

ResizeNext ==
  \/ \E c \in ResizeCells : SelectSegmentAt(c)
  \/ HandleArmResize
  \/ ResizePointerUp
  \/ \E side \in {"start", "end"}, col \in 0..(NumCols - 1) : HandleResize(side, col)
  \/ \E side \in {"start", "end"}, m \in FineMinutes, mode \in {"minute", "snap"} :
       HandleFineResizeApply(side, m, mode)

SpecResize == ResizeInit /\ [][ResizeNext]_vars

\* C9: after every resize commit, coarse or fine, the selected segment has
\* startCol <= endCol and the stored FineBounds has endMinute > startMinute.
C9_ResizeSpanNonEmpty ==
  /\ obs.last \in {"resize", "fine"}
       => /\ selectedSegment # NoSeg
          /\ selectedSegment.startCol <= selectedSegment.endCol
          /\ obs.key \in DOMAIN fineBoundsStore
  /\ \A k \in DOMAIN fineBoundsStore :
       fineBoundsStore[k].endMinute > fineBoundsStore[k].startMinute

\* A fine resize of the start moved it past the stored end, and the end was
\* corrected to one minute after it.
C9_Witness ==
  /\ obs.last = "fine"
  /\ obs.key \in DOMAIN fineBoundsStore
  /\ fineBoundsStore[obs.key].startMinute = 25
  /\ fineBoundsStore[obs.key].endMinute = 26

\* ------------------------------ App.old.tsx: press, drag and long-press ----
\* One pointer (id 1) on a two-cell grid with a paint or erase tool. The clock
\* `now` counts ticks of 150 ms; a due timer fires before the clock advances.
\* No checklist block exists yet; obs records the press under way: its cell,
\* its time and whether every movement so far stayed in the cell and within
\* the threshold.
PointerId == 1
MoveDistances2 == {1, 49}      \* dx*dx + dy*dy of a pointermove, from the press point

ApplyMode(g, mode, cellId, b) ==
  IF mode = "erase" THEN eraseCell(g, cellId)
  ELSE IF mode = "paint" THEN paintCell(g, cellId, b)
  ELSE g

\* (mutant) the firing long-press leaves the drag down
FiredDragStillDown(st) == st

\* (mutant) the firing long-press leaves the drag down in paint mode
FiredDragPaints(st) == [st EXCEPT !.mode = "paint"]

\* the long-press callback ends the drag without painting or erasing
FiredDrag(st) == [st EXCEPT !.isDown = FALSE, !.mode = "null", !.pointerId = -1]

\* (mutant) the movement threshold never cancels
IsFarNever(d2) == FALSE

\* the movement threshold of the window's pointermove listeners
IsFar(d2) == d2 > MoveThreshold2

\* beginDrag(pointerId, startCellId, tool, applyInitial = false)
beginDrag(cellId, tl, b) ==
  [isDown |-> TRUE, mode |-> IF tl = "erase" THEN "erase" ELSE "paint", brush |-> b,
   activeCells |-> {}, startCellId |-> cellId, lastCellId |-> cellId,
   pointerId |-> PointerId]

\* endDrag(pointerId)
endDrag(st, pointerId) ==
  IF ~st.isDown \/ st.pointerId # pointerId THEN st
  ELSE [st EXCEPT !.isDown = FALSE, !.mode = "null", !.activeCells = {},
                  !.startCellId = NoCell, !.lastCellId = NoCell]

\* continueDrag(cellId): the deferred first cell, then the entered cell
ContinuedFirst(g, st, pending) ==
  IF pending # NoCell /\ pending \notin st.activeCells
    THEN ApplyMode(g, st.mode, pending, st.brush) ELSE g
ContinuedCells(st, pending) ==
  IF pending # NoCell THEN st.activeCells \cup {pending} ELSE st.activeCells
ContinuedGrid(g, st, pending, cellId) ==
  IF cellId \in ContinuedCells(st, pending) THEN ContinuedFirst(g, st, pending)
  ELSE ApplyMode(ContinuedFirst(g, st, pending), st.mode, cellId, st.brush)

PressInit ==
  /\ DatesIdle
  /\ StoreInit
  /\ tool = "PAINT" /\ brush = "work"
  /\ pin = [blocks |-> << >>]
  /\ pout = [done |-> FALSE]
  /\ \E filled \in BOOLEAN :
       dayGrid = IF filled THEN paintCell(<< >>, HistCell, "rest") ELSE << >>
  /\ undoStack = << >> /\ redoStack = << >>
  /\ activeTool \in {"execute", "erase"} /\ activeBrush = "work"
  /\ dragRef = OldNoDrag
  /\ pendingStartCell = NoCell
  /\ longPressTimer = [armed |-> FALSE, cellId |-> NoCell, due |-> 0]
  /\ longPressStart = [set |-> FALSE, cellId |-> NoCell]
  /\ checklistDialog = [open |-> FALSE, startMin |-> 0, endMin |-> 0, targetCell |-> NoCell]
  /\ selectedSegment = NoSeg
  /\ resizeArmed = FALSE
  /\ resizeState = [active |-> FALSE, base |-> NoSeg]
  /\ fineBoundsStore = << >>
  /\ fineUi = FineUiIdle
  /\ obs = [pressed |-> FALSE, cellId |-> NoCell, at |-> 0, quiet |-> FALSE,
            farEarly |-> FALSE, fired |-> FALSE, gridAtDown |-> dayGrid,
            outside |-> FALSE, expect |-> << >>]

\* A movement beyond the threshold before the long-press delay has elapsed.
FarEarly(d2) == d2 > MoveThreshold2 /\ now < obs.at + LongPressTicks

PressUnchanged ==
  UNCHANGED <<date, dayStore,
              blocks, past, future, tool, brush, idCounter, dragState, pin, pout,
              activeTool, activeBrush, selectedSegment, resizeArmed, resizeState,
              fineBoundsStore, fineUi>>

\* pointerdown on a cell with the execute (paint) or erase tool
OnCellPointerDown(cellId) ==
  /\ ~obs.pressed /\ ~checklistDialog.open
  /\ Len(undoStack) < MaxPress
  /\ undoStack' = pushSnapshot(undoStack, dayGrid, activeTool, activeBrush)
  /\ redoStack' = << >>
  /\ dragRef' = beginDrag(cellId, activeTool, activeBrush)
  /\ pendingStartCell' = cellId
  /\ longPressStart' = [set |-> TRUE, cellId |-> cellId]
  /\ longPressTimer' = [armed |-> TRUE, cellId |-> cellId, due |-> now + LongPressTicks]
  /\ obs' = [pressed |-> TRUE, cellId |-> cellId, at |-> now, quiet |-> TRUE,
             farEarly |-> FALSE, fired |-> FALSE, gridAtDown |-> dayGrid,
             outside |-> FALSE, expect |-> << >>]
  /\ UNCHANGED <<dayGrid, checklistDialog, now>>
  /\ PressUnchanged

\* A pointermove with the button held, over cell cellId, at squared distance d2
\* from the press point: the cell's onPointerMove (onCellPointerEnter), then
\* the window's pointermove listeners (movement threshold).
PointerMove(cellId, d2) ==
  /\ obs.pressed
  /\ LET entered == dragRef.isDown /\ dragRef.pointerId = PointerId
         dragging == entered /\ dragRef.mode # "null"
         far == longPressStart.set /\ IsFar(d2)
     IN /\ longPressTimer' = IF entered \/ far THEN [longPressTimer EXCEPT !.armed = FALSE]
                             ELSE longPressTimer
        /\ longPressStart' = IF far THEN [set |-> FALSE, cellId |-> NoCell] ELSE longPressStart
        /\ dayGrid' = IF dragging
                        THEN ContinuedGrid(dayGrid, dragRef, pendingStartCell, cellId)
                        ELSE dayGrid
        /\ dragRef' = IF dragging
                        THEN [dragRef EXCEPT !.activeCells =
                                ContinuedCells(dragRef, pendingStartCell) \cup {cellId}]
                        ELSE dragRef
        /\ pendingStartCell' = IF dragging THEN NoCell ELSE pendingStartCell
  /\ obs' = [obs EXCEPT !.quiet = @ /\ cellId = obs.cellId /\ d2 <= MoveThreshold2,
                        !.farEarly = @ \/ FarEarly(d2)]
  /\ UNCHANGED <<undoStack, redoStack, checklistDialog, now>>
  /\ PressUnchanged

\* A pointermove with the button held over no cell (the memo column, or outside
\* the grid): only the window's pointermove listeners run.
PointerMoveOutside(d2) ==
  /\ obs.pressed
  /\ LET far == longPressStart.set /\ IsFar(d2)
     IN /\ longPressTimer' = IF far THEN [longPressTimer EXCEPT !.armed = FALSE]
                             ELSE longPressTimer
        /\ longPressStart' = IF far THEN [set |-> FALSE, cellId |-> NoCell] ELSE longPressStart
  /\ obs' = [obs EXCEPT !.quiet = FALSE, !.farEarly = @ \/ FarEarly(d2)]
  /\ UNCHANGED <<dayGrid, undoStack, redoStack, dragRef, pendingStartCell, checklistDialog, now>>
  /\ PressUnchanged

\* pointerup over a cell: onCellPointerUp, then the window's pointerup listener
OnCellPointerUp(cellId) ==
  /\ obs.pressed
  /\ longPressTimer' = [longPressTimer EXCEPT !.armed = FALSE]
  /\ dayGrid' = IF pendingStartCell # NoCell /\ dragRef.isDown /\ dragRef.pointerId = PointerId
                  THEN ApplyMode(dayGrid, dragRef.mode, pendingStartCell, dragRef.brush)
                  ELSE dayGrid
  /\ dragRef' = endDrag(dragRef, PointerId)
  /\ pendingStartCell' = NoCell
  /\ obs' = [obs EXCEPT !.pressed = FALSE]
  /\ UNCHANGED <<undoStack, redoStack, longPressStart, checklistDialog, now>>
  /\ PressUnchanged

\* pointercancel over a cell: onCellPointerCancel, then the window's
\* pointercancel listener
OnCellPointerCancel ==
  /\ obs.pressed
  /\ longPressTimer' = [longPressTimer EXCEPT !.armed = FALSE]
  /\ dragRef' = endDrag(dragRef, PointerId)
  /\ obs' = [obs EXCEPT !.pressed = FALSE]
  /\ UNCHANGED <<dayGrid, undoStack, redoStack, pendingStartCell, longPressStart,
                 checklistDialog, now>>
  /\ PressUnchanged

\* pointerup or pointercancel outside the cells: only the window's listeners
\* run (endDrag; the resize state, which is already null here, is reset).
\* obs.expect is the grid with the still-pending first cell applied.
PointerUpOutside ==
  /\ obs.pressed
  /\ dragRef' = IF dragRef.isDown THEN endDrag(dragRef, PointerId) ELSE dragRef
  /\ obs' = [obs EXCEPT !.pressed = FALSE, !.outside = TRUE,
                        !.expect = IF pendingStartCell # NoCell /\ dragRef.isDown
                                     THEN ApplyMode(dayGrid, dragRef.mode, pendingStartCell,
                                                    dragRef.brush)
                                     ELSE dayGrid]
  /\ UNCHANGED <<dayGrid, undoStack, redoStack, pendingStartCell, longPressTimer,
                 longPressStart, checklistDialog, now>>
  /\ PressUnchanged

\* the callback of the long-press timer
LongPressTimeout ==
  /\ longPressTimer.armed /\ now >= longPressTimer.due
  /\ longPressTimer' = [longPressTimer EXCEPT !.armed = FALSE]
  /\ IF dragRef.isDown /\ longPressStart.set /\ pendingStartCell = longPressTimer.cellId
       THEN /\ dragRef' = FiredDrag(dragRef)
            /\ pendingStartCell' = NoCell
            /\ obs' = [obs EXCEPT !.fired = TRUE]
            /\ checklistDialog' =
                 [open |-> TRUE,
                  startMin |-> longPressTimer.cellId[1] * 60 + longPressTimer.cellId[2] * 10,
                  endMin |-> Min2(longPressTimer.cellId[1] * 60
                                    + longPressTimer.cellId[2] * 10 + 10, 24 * 60),
                  targetCell |-> longPressTimer.cellId]
       ELSE UNCHANGED <<dragRef, pendingStartCell, checklistDialog, obs>>
  /\ UNCHANGED <<dayGrid, undoStack, redoStack, longPressStart, now>>
  /\ PressUnchanged

CloseChecklistDialog ==
  /\ checklistDialog.open /\ ~obs.pressed
  /\ checklistDialog' = [checklistDialog EXCEPT !.open = FALSE]
  /\ UNCHANGED <<dayGrid, undoStack, redoStack, dragRef, pendingStartCell, longPressTimer,
                 longPressStart, now, obs>>
  /\ PressUnchanged

Tick ==
  /\ now < MaxClock
  /\ ~(longPressTimer.armed /\ now >= longPressTimer.due)
  /\ now' = now + 1
  /\ UNCHANGED <<dayGrid, undoStack, redoStack, dragRef, pendingStartCell, longPressTimer,
                 longPressStart, checklistDialog, obs>>
  /\ PressUnchanged

PressNext ==
  \/ \E c \in OldCells : OnCellPointerDown(c)
  \/ \E c \in OldCells, d2 \in MoveDistances2 : PointerMove(c, d2)
  \/ \E d2 \in MoveDistances2 : PointerMoveOutside(d2)
  \/ \E c \in OldCells : OnCellPointerUp(c)
  \/ OnCellPointerCancel
  \/ PointerUpOutside
  \/ LongPressTimeout
  \/ CloseChecklistDialog
  \/ Tick

SpecPress == PressInit /\ [][PressNext]_vars

\* C10: a press with a paint or erase tool on cell c, held for more than the
\* long-press delay without pointerup, every movement staying inside c and
\* within the movement threshold, has opened the checklist dialog for
\* [start(c), start(c) + 10 min).
C10_LongPressOpensChecklist ==
  (obs.pressed /\ obs.quiet /\ now > obs.at + LongPressTicks)
    => /\ checklistDialog.open
       /\ checklistDialog.targetCell = obs.cellId
       /\ checklistDialog.startMin = obs.cellId[1] * 60 + obs.cellId[2] * 10
       /\ checklistDialog.endMin = checklistDialog.startMin + 10

\* C11: a gesture whose pointer moved beyond the movement threshold (squared
\* distance > 36) before the long-press delay elapsed never opens the
\* checklist dialog.
C11_FarMoveNeverOpens == obs.farEarly => ~checklistDialog.open

\* The pointer left the threshold over no cell, the first cell is still
\* deferred, and the press has lasted longer than the long-press delay.
C11_Witness ==
  /\ obs.pressed /\ obs.farEarly
  /\ pendingStartCell = obs.cellId /\ dragRef.isDown
  /\ now > obs.at + LongPressTicks

\* C12: once the long-press timer has fired on a paint or erase gesture, the
\* deferred first-cell mutation is never applied: during and after the
\* gesture the day grid is the grid at its pointerdown.
C12_FiredDiscardsPending == obs.fired => dayGrid = obs.gridAtDown

\* The long-press fired with the erase tool on a filled cell, the pointer then
\* moved over the other cell and was released.
C12_Witness ==
  /\ obs.fired /\ ~obs.pressed /\ ~obs.quiet
  /\ activeTool = "erase" /\ obs.cellId = HistCell
  /\ CellAt(obs.gridAtDown, HistCell).execute = "rest"

\* --------------------------- drag hook: gestures of one physical pointer -----
\* The cells bind onPointerDown, onPointerEnter and onPointerUp to the hook's
\* handlers; nothing else in the document listens to the pointer.  obs follows
\* the physical pointer: held is the primary button, atDown the store at the
\* last press, pushes the snapshots pushed by that press, mutated whether the
\* store changed since, phase the position in the gesture, hover / wasDown /
\* before describe the last pointerenter when it arrived with no button held.

GestureCells == {<<DragRow, 0>>, <<DragRow, 1>>, <<DragRow, 2>>}

DragObsIdle ==
  [held |-> FALSE, phase |-> "idle", atDown |-> << >>, pushes |-> 0,
   mutated |-> FALSE, hover |-> FALSE, wasDown |-> FALSE, before |-> << >>]

DragUnchanged == UNCHANGED <<pin, pout>> /\ OldUnchanged

DragInit ==
  /\ StoreInit
  /\ brush = "work"
  /\ pin = [blocks |-> << >>]
  /\ pout = [done |-> FALSE]
  /\ obs = DragObsIdle
  /\ OldIdle

\* The button goes down over a cell: the cell's onPointerDown runs.
DragDown(row, col) ==
  /\ ~obs.held
  /\ Len(past) < MaxPast
  /\ handlePointerDown(row, col)
  /\ obs' = [DragObsIdle EXCEPT !.held = TRUE, !.phase = "gesture",
                                !.atDown = blocks, !.pushes = 1]
  /\ DragUnchanged

\* The button goes down over the page outside the cells: no handler is bound.
DragDownOutside ==
  /\ ~obs.held
  /\ obs' = [DragObsIdle EXCEPT !.held = TRUE, !.phase = "gesture",
                                !.atDown = blocks, !.pushes = 0]
  /\ UNCHANGED <<blocks, past, future, tool, brush, idCounter, now, dragState>>
  /\ DragUnchanged

\* The pointer enters a cell, the button held or not: the cell's onPointerEnter.
DragEnter(row, col, r) ==
  /\ idCounter < MaxIds
  /\ handlePointerEnter(row, col, obs.held, now, r)
  /\ obs' = [obs EXCEPT !.mutated = @ \/ (blocks' # blocks),
                        !.hover = ~obs.held,
                        !.wasDown = ~obs.held /\ dragState.isDown,
                        !.before = IF obs.held THEN << >> ELSE blocks]
  /\ DragUnchanged

\* The button is released over a cell: the cell's onPointerUp runs.
DragUp ==
  /\ obs.held
  /\ handlePointerUp
  /\ obs' = [obs EXCEPT !.held = FALSE, !.phase = "completed", !.hover = FALSE,
                        !.wasDown = FALSE, !.before = << >>]
  /\ DragUnchanged

\* The button is released outside the cells: no handler is bound there and the
\* hook registers no listener on the window or the document.
DragUpOutside ==
  /\ obs.held
  /\ obs' = [obs EXCEPT !.held = FALSE, !.phase = "completed", !.hover = FALSE,
                        !.wasDown = FALSE, !.before = << >>]
  /\ UNCHANGED <<blocks, past, future, tool, brush, idCounter, now, dragState>>
  /\ DragUnchanged

\* undo() between two gestures.
DragUndo ==
  /\ ~obs.held
  /\ undo
  /\ obs' = [obs EXCEPT !.phase = IF @ = "completed" THEN "undone" ELSE "idle",
                        !.hover = FALSE, !.wasDown = FALSE, !.before = << >>]
  /\ DragUnchanged

DragNext ==
  \/ \E c \in GestureCells : DragDown(c[1], c[2])
  \/ DragDownOutside
  \/ \E c \in GestureCells, r \in DragSuffixes : DragEnter(c[1], c[2], r)
  \/ DragUp
  \/ DragUpOutside
  \/ DragUndo

SpecDrag == DragInit /\ [][DragNext]_vars

\* C13: every gesture that changed the block store pushed exactly one snapshot
\* at its pointerdown, and a single undo right after a completed gesture that
\* changed the store gives back the store as it was at that pointerdown.
C13_OneSnapshotPerGesture ==
  obs.mutated =>
    /\ obs.pushes = 1
    /\ obs.phase = "undone" => DeepEqual(blocks, obs.atDown)

\* C14: once the button has been released, over a cell or anywhere else, the
\* drag state is idle: isDown is false until the next pointerdown.
C14_ReleaseEndsDrag == ~obs.held => ~dragState.isDown

\* ------------------------------ App.old.tsx: two pointers on the grid -------
\* Two pointers (two fingers) on the two-cell grid with a paint or erase tool;
\* every gesture is shorter than the long-press delay and stays within the
\* movement threshold, so the timer is armed and cleared but never fires.
\* obs.held is the set of pointers in contact; obs.foreign tells that the last
\* event came from a pointer that did not own the active gesture, and obs.grid,
\* obs.undo and obs.drag are the state just before that event.
OtherPointerId == 2
Pointers == {PointerId, OtherPointerId}

TouchObs(held, foreign, g, us, st) ==
  [held |-> held, foreign |-> foreign,
   grid |-> IF foreign THEN g ELSE << >>,
   undo |-> IF foreign THEN us ELSE << >>,
   drag |-> IF foreign THEN st ELSE OldNoDrag]

Foreign(pid) == dragRef.isDown /\ dragRef.pointerId # pid

TouchInit ==
  /\ DatesIdle
  /\ StoreInit
  /\ tool = "PAINT" /\ brush = "work"
  /\ pin = [blocks |-> << >>]
  /\ pout = [done |-> FALSE]
  /\ \E filled \in BOOLEAN :
       dayGrid = IF filled THEN paintCell(<< >>, HistCell, "rest") ELSE << >>
  /\ undoStack = << >> /\ redoStack = << >>
  /\ activeTool \in {"execute", "erase"} /\ activeBrush = "work"
  /\ dragRef = OldNoDrag
  /\ pendingStartCell = NoCell
  /\ longPressTimer = [armed |-> FALSE, cellId |-> NoCell, due |-> 0]
  /\ longPressStart = [set |-> FALSE, cellId |-> NoCell]
  /\ checklistDialog = [open |-> FALSE, startMin |-> 0, endMin |-> 0, targetCell |-> NoCell]
  /\ selectedSegment = NoSeg
  /\ resizeArmed = FALSE
  /\ resizeState = [active |-> FALSE, base |-> NoSeg]
  /\ fineBoundsStore = << >>
  /\ fineUi = FineUiIdle
  /\ obs = TouchObs({}, FALSE, << >>, << >>, OldNoDrag)

TouchUnchanged ==
  UNCHANGED <<date, dayStore,
              blocks, past, future, tool, brush, idCounter, now, dragState, pin, pout,
              activeTool, activeBrush, checklistDialog, selectedSegment, resizeArmed,
              resizeState, fineBoundsStore, fineUi>>

\* onCellPointerDown(cellId, e) with e.pointerId = pid: resizeState.current is
\* null, so the only pointer-id test of the handler lets the event through.
TouchDown(cellId, pid) ==
  /\ pid \notin obs.held
  /\ Len(undoStack) < MaxPress
  /\ undoStack' = pushSnapshot(undoStack, dayGrid, activeTool, activeBrush)
  /\ redoStack' = << >>
  /\ dragRef' = [beginDrag(cellId, activeTool, activeBrush) EXCEPT !.pointerId = pid]
  /\ pendingStartCell' = cellId
  /\ longPressStart' = [set |-> TRUE, cellId |-> cellId]
  /\ longPressTimer' = [armed |-> TRUE, cellId |-> cellId, due |-> now + LongPressTicks]
  /\ obs' = TouchObs(obs.held \cup {pid}, Foreign(pid), dayGrid, undoStack, dragRef)
  /\ UNCHANGED dayGrid
  /\ TouchUnchanged

\* onCellPointerEnter(cellId, e) with e.pointerId = pid and the contact held.
TouchEnter(cellId, pid) ==
  /\ pid \in obs.held
  /\ LET entered == dragRef.isDown /\ dragRef.pointerId = pid
         dragging == entered /\ dragRef.mode # "null"
     IN /\ longPressTimer' = IF entered THEN [longPressTimer EXCEPT !.armed = FALSE]
                             ELSE longPressTimer
        /\ dayGrid' = IF dragging
                        THEN ContinuedGrid(dayGrid, dragRef, pendingStartCell, cellId)
                        ELSE dayGrid
        /\ dragRef' = IF dragging
                        THEN [dragRef EXCEPT !.activeCells =
                                ContinuedCells(dragRef, pendingStartCell) \cup {cellId}]
                        ELSE dragRef
        /\ pendingStartCell' = IF dragging THEN NoCell ELSE pendingStartCell
  /\ obs' = TouchObs(obs.held, Foreign(pid), dayGrid, undoStack, dragRef)
  /\ UNCHANGED <<undoStack, redoStack, longPressStart>>
  /\ TouchUnchanged

\* onCellPointerUp(cellId, e) with e.pointerId = pid, then the window's
\* pointerup listener.
TouchUp(cellId, pid) ==
  /\ pid \in obs.held
  /\ longPressTimer' = [longPressTimer EXCEPT !.armed = FALSE]
  /\ dayGrid' = IF pendingStartCell # NoCell /\ dragRef.isDown /\ dragRef.pointerId = pid
                  THEN ApplyMode(dayGrid, dragRef.mode, pendingStartCell, dragRef.brush)
                  ELSE dayGrid
  /\ dragRef' = endDrag(dragRef, pid)
  /\ pendingStartCell' = NoCell
  /\ obs' = TouchObs(obs.held \ {pid}, Foreign(pid), dayGrid, undoStack, dragRef)
  /\ UNCHANGED <<undoStack, redoStack, longPressStart>>
  /\ TouchUnchanged

TouchNext ==
  \/ \E c \in OldCells, pid \in Pointers : TouchDown(c, pid)
  \/ \E c \in OldCells, pid \in Pointers : TouchEnter(c, pid)
  \/ \E c \in OldCells, pid \in Pointers : TouchUp(c, pid)

SpecTouch == TouchInit /\ [][TouchNext]_vars

\* C15: an event of a pointer that does not own the active gesture leaves the
\* day grid, the undo stack and the gesture's owner, start cell and mode as
\* they were.
C15_ForeignPointerIgnored ==
  obs.foreign =>
    /\ dayGrid = obs.grid
    /\ undoStack = obs.undo
    /\ dragRef.pointerId = obs.drag.pointerId
    /\ dragRef.startCellId = obs.drag.startCellId
    /\ dragRef.mode = obs.drag.mode

\* ------------------------------ App.old.tsx: the "new range" gesture --------
\* The "new" tool in the execute day mode with a temporary preset chosen, one
\* pointer, gestures shorter than the long-press delay.  obs.visited is the set
\* of cells the pointer was over since the pointerdown, obs.gridAtDown the grid
\* at the pointerdown, obs.start the cell of the pointerdown, obs.phase tells whether the last event was a commit.
NewRangeCells == {<<DragRow, c>> : c \in 0..MaxRangeCol}

\* beginDrag(pointerId, startCellId, "new", applyInitial = true)
beginDragNew(cellId, b) ==
  [isDown |-> TRUE, mode |-> "new", brush |-> b, activeCells |-> {cellId},
   startCellId |-> cellId, lastCellId |-> cellId, pointerId |-> PointerId]

\* the range commit of onCellPointerUp for the snapshot endDrag returned
RangeCommit(g, st) ==
  LET startMin == st.startCellId[1] * 60 + st.startCellId[2] * 10
      endMin == st.lastCellId[1] * 60 + st.lastCellId[2] * 10 + 10
  IN paintRange(g, Min2(startMin, endMin), Max2(startMin, endMin), st.brush)

RangeInit ==
  /\ DatesIdle
  /\ StoreInit
  /\ tool = "PAINT" /\ brush = "work"
  /\ pin = [blocks |-> << >>]
  /\ pout = [done |-> FALSE]
  /\ dayGrid = << >>
  /\ undoStack = << >> /\ redoStack = << >>
  /\ activeTool = "new" /\ activeBrush \in OldActivities
  /\ dragRef = OldNoDrag
  /\ pendingStartCell = NoCell
  /\ longPressTimer = [armed |-> FALSE, cellId |-> NoCell, due |-> 0]
  /\ longPressStart = [set |-> FALSE, cellId |-> NoCell]
  /\ checklistDialog = [open |-> FALSE, startMin |-> 0, endMin |-> 0, targetCell |-> NoCell]
  /\ selectedSegment = NoSeg
  /\ resizeArmed = FALSE
  /\ resizeState = [active |-> FALSE, base |-> NoSeg]
  /\ fineBoundsStore = << >>
  /\ fineUi = FineUiIdle
  /\ obs = [phase |-> "idle", visited |-> {}, gridAtDown |-> << >>, start |-> NoCell]

RangeUnchanged ==
  UNCHANGED <<date, dayStore,
              blocks, past, future, tool, brush, idCounter, now, dragState, pin, pout,
              activeTool, activeBrush, checklistDialog, selectedSegment, resizeArmed,
              resizeState, fineBoundsStore, fineUi>>

\* onCellPointerDown with the "new" tool
RangeDown(cellId) ==
  /\ obs.phase # "drag"
  /\ Len(undoStack) < MaxPress
  /\ undoStack' = pushSnapshot(undoStack, dayGrid, activeTool, activeBrush)
  /\ redoStack' = << >>
  /\ dragRef' = beginDragNew(cellId, activeBrush)
  /\ pendingStartCell' = NoCell
  /\ longPressStart' = [set |-> TRUE, cellId |-> cellId]
  /\ longPressTimer' = [armed |-> TRUE, cellId |-> cellId, due |-> now + LongPressTicks]
  /\ obs' = [phase |-> "drag", visited |-> {cellId}, gridAtDown |-> dayGrid,
             start |-> cellId]
  /\ UNCHANGED dayGrid
  /\ RangeUnchanged

\* onCellPointerEnter with the button held, then continueDrag in mode "new"
RangeEnter(cellId) ==
  /\ obs.phase = "drag"
  /\ dragRef.isDown /\ dragRef.pointerId = PointerId
  /\ longPressTimer' = [longPressTimer EXCEPT !.armed = FALSE]
  /\ dragRef' = IF cellId \in dragRef.activeCells THEN dragRef
                ELSE [dragRef EXCEPT !.activeCells = @ \cup {cellId}, !.lastCellId = cellId]
  /\ obs' = [obs EXCEPT !.visited = @ \cup {cellId}]
  /\ UNCHANGED <<dayGrid, undoStack, redoStack, pendingStartCell, longPressStart>>
  /\ RangeUnchanged

\* onCellPointerUp over a cell: endDrag, then the range commit
RangeUp ==
  /\ obs.phase = "drag"
  /\ longPressTimer' = [longPressTimer EXCEPT !.armed = FALSE]
  /\ dragRef' = endDrag(dragRef, PointerId)
  /\ dayGrid' = IF dragRef.isDown /\ dragRef.mode = "new" /\ dragRef.startCellId # NoCell
                  THEN RangeCommit(dayGrid, dragRef) ELSE dayGrid
  /\ pendingStartCell' = NoCell
  /\ obs' = [obs EXCEPT !.phase = "committed"]
  /\ UNCHANGED <<undoStack, redoStack, longPressStart>>
  /\ RangeUnchanged

RangeNext ==
  \/ \E c \in NewRangeCells : RangeDown(c)
  \/ \E c \in NewRangeCells : RangeEnter(c)
  \/ RangeUp

SpecRange == RangeInit /\ [][RangeNext]_vars

\* The cells from the earliest to the latest visited cell, both inclusive.
Envelope(visited) ==
  {c \in NewRangeCells : \E a, b \in visited : a[2] <= c[2] /\ c[2] <= b[2]}

\* C16: after the pointerup of a "new range" gesture, exactly the cells of the
\* gesture's envelope have been painted with the brush: every cell of the
\* envelope holds what paintCell gives it, every other cell is as it was at
\* the pointerdown.
C16_CommitIsEnvelope ==
  obs.phase = "committed" =>
    \A c \in NewRangeCells :
      CellAt(dayGrid, c) =
        IF c \in Envelope(obs.visited)
          THEN Painted(CellAt(obs.gridAtDown, c), activeBrush)
          ELSE CellAt(obs.gridAtDown, c)

\* C17: handleResize changes neither the day grid, the FineBounds store, the
\* selection nor the history unless the arm action was performed after the
\* segment was selected, and every selection leaves the armed flag false.
C17_ResizeNeedsArm ==
  [][/\ ((\E side \in {"start", "end"}, col \in 0..(NumCols - 1) : HandleResize(side, col))
           /\ ~obs.armedAfter)
          => UNCHANGED <<dayGrid, fineBoundsStore, selectedSegment, undoStack, redoStack>>
     /\ (\E c \in ResizeCells : SelectSegmentAt(c)) => ~resizeArmed']_vars

\* A segment was resized, a segment was selected again, and handleResize was
\* then called without arming: it was refused.
C17_Witness ==
  /\ obs.last = "refused" /\ ~obs.armedAfter
  /\ selectedSegment # NoSeg /\ ~resizeArmed
  /\ undoStack # << >>

\* ------------------------------ App.old.tsx: DayTimeline resize handles -----
\* The select tool, one pointer, the grid of the resize specification.  The
\* clock `now` counts ticks of 150 ms.  obs follows the pointer on a handle:
\* held, the time of the press, whether it has been stationary since, and
\* inFine: the handle has been held stationary for the escalation delay, which
\* is where the specification places the FineAdjust state.  obs.last names the
\* last event and obs.fbBefore is the FineBounds store just before a release;
\* obs.pressGrid and obs.pressFb are the grid and the FineBounds store just
\* before the last press on a handle.

\* the effect on [selectedSegment, activeTool, resizeArmed]
FineUiReset(ui) ==
  [ui EXCEPT !.overlay = NoFineOverlay, !.fineActive = FALSE, !.fineSide = "none",
             !.timer = [armed |-> FALSE, due |-> 0]]

clamp(v, min, max) == Min2(Max2(v, min), max)

getFineBounds(fbs, seg) ==
  LET fb == IF segmentKey(seg) \in DOMAIN fbs THEN fbs[segmentKey(seg)]
            ELSE defaultFineBounds(seg)
      minStart == seg.startCol * 10
      maxEnd == (seg.endCol + 1) * 10
      start == clamp(fb.startMinute, minStart, maxEnd - 1)
  IN [startMinute |-> start, endMinute |-> clamp(fb.endMinute, start + 1, maxEnd)]

\* a FineBounds store loaded from storage: a minute-precision bound committed
\* earlier for the work segment of columns 1-2
LoadedFineBounds ==
  [k \in {<<ResizeHour, "execute", "work", 1, 2>>} |-> [startMinute |-> 15, endMinute |-> 25]]

FineInit ==
  /\ DatesIdle
  /\ StoreInit
  /\ tool = "PAINT" /\ brush = "work"
  /\ pin = [blocks |-> << >>]
  /\ pout = [done |-> FALSE]
  /\ dayGrid = ResizeGrid
  /\ undoStack = << >> /\ redoStack = << >>
  /\ activeTool = "select" /\ activeBrush = "work"
  /\ dragRef = OldNoDrag
  /\ pendingStartCell = NoCell
  /\ longPressTimer = [armed |-> FALSE, cellId |-> NoCell, due |-> 0]
  /\ longPressStart = [set |-> FALSE, cellId |-> NoCell]
  /\ checklistDialog = [open |-> FALSE, startMin |-> 0, endMin |-> 0, targetCell |-> NoCell]
  /\ selectedSegment = NoSeg
  /\ resizeArmed = FALSE
  /\ resizeState = [active |-> FALSE, base |-> NoSeg]
  /\ fineBoundsStore \in {<< >>, LoadedFineBounds}
  /\ fineUi = FineUiIdle
  /\ obs = [held |-> FALSE, heldAt |-> 0, stationary |-> FALSE, inFine |-> FALSE,
            presses |-> 0, last |-> "none", fbBefore |-> << >>,
            pressGrid |-> << >>, pressFb |-> << >>]

FineUnchanged ==
  UNCHANGED <<date, dayStore,
              blocks, past, future, tool, brush, idCounter, dragState, pin, pout,
              activeTool, activeBrush, dragRef, pendingStartCell, longPressTimer,
              longPressStart, checklistDialog>>

\* onCellPointerDown with the select tool, then the effect on the selection
FineSelect(cellId) ==
  /\ ~obs.held
  /\ selectedSegment' = findSegmentAtCell(dayGrid, cellId)
  /\ resizeArmed' = FALSE
  /\ resizeState' = [active |-> FALSE, base |-> NoSeg]
  /\ fineUi' = FineUiReset(fineUi)
  /\ obs' = [obs EXCEPT !.last = "none", !.fbBefore = << >>,
                        !.pressGrid = << >>, !.pressFb = << >>]
  /\ UNCHANGED <<dayGrid, undoStack, redoStack, fineBoundsStore, now>>
  /\ FineUnchanged

\* pointerdown on the anchor button of the selected segment: onArmResize
FineArm ==
  /\ ~obs.held
  /\ selectedSegment # NoSeg
  /\ resizeArmed' = TRUE
  /\ fineUi' = IF resizeArmed THEN fineUi ELSE FineUiReset(fineUi)
  /\ obs' = [obs EXCEPT !.last = "none", !.fbBefore = << >>,
                        !.pressGrid = << >>, !.pressFb = << >>]
  /\ UNCHANGED <<dayGrid, undoStack, redoStack, fineBoundsStore, selectedSegment,
                 resizeState, now>>
  /\ FineUnchanged

\* pointerdown on a boundary handle of the selected segment: unarmed, only the
\* hint is shown; armed, the escalation timer is set, resizeRef is set and
\* onResize is called with the handle's own column, which replaces the
\* selection by a new object, so that the effect on the selection runs.
FineHandleDown(side) ==
  /\ ~obs.held
  /\ selectedSegment # NoSeg
  /\ obs.presses < MaxResizeOps
  /\ IF ~resizeArmed
       THEN UNCHANGED <<fineUi, dayGrid, undoStack, redoStack, fineBoundsStore,
                        selectedSegment, resizeState, resizeArmed>>
       ELSE /\ handleResize(side, IF side = "start" THEN selectedSegment.startCol
                                  ELSE selectedSegment.endCol)
            /\ fineUi' = FineUiReset([fineUi EXCEPT
                              !.fineActive = FALSE, !.fineSide = side,
                              !.timer = [armed |-> TRUE, due |-> now + LongPressTicks],
                              !.resizeRef = side])
  /\ obs' = [obs EXCEPT !.held = TRUE, !.heldAt = now, !.stationary = resizeArmed,
                        !.inFine = FALSE, !.presses = @ + 1, !.last = "none",
                        !.fbBefore = << >>, !.pressGrid = dayGrid,
                        !.pressFb = fineBoundsStore]
  /\ UNCHANGED now
  /\ FineUnchanged

\* the window's pointermove listener of DayTimeline, the pointer over column col
FineHandleMove(col) ==
  /\ obs.held
  /\ IF fineUi.resizeRef = "none" \/ selectedSegment = NoSeg
       THEN UNCHANGED <<fineUi, dayGrid, undoStack, redoStack, fineBoundsStore,
                        selectedSegment, resizeState, resizeArmed>>
     ELSE IF fineUi.fineActive /\ fineUi.fineSide # "none"
       THEN LET bounds == getFineBounds(fineBoundsStore, selectedSegment)
                minBound == IF fineUi.fineSide = "start" THEN selectedSegment.startCol * 10
                            ELSE bounds.startMinute + 1
                maxBound == IF fineUi.fineSide = "start" THEN bounds.endMinute - 1
                            ELSE (selectedSegment.endCol + 1) * 10
            IN /\ fineUi' = [fineUi EXCEPT !.overlay =
                               [shown |-> TRUE, side |-> fineUi.fineSide,
                                minute |-> clamp(col * 10, minBound, maxBound),
                                locked |-> FALSE]]
               /\ UNCHANGED <<dayGrid, undoStack, redoStack, fineBoundsStore,
                              selectedSegment, resizeState, resizeArmed>>
     ELSE /\ handleResize(fineUi.resizeRef, col)
          /\ fineUi' = IF ResizeAllowed(selectedSegment, resizeArmed)
                         THEN FineUiReset(fineUi) ELSE fineUi
  /\ obs' = [obs EXCEPT !.stationary = @ /\ obs.inFine, !.last = "none",
                        !.fbBefore = << >>]
  /\ UNCHANGED now
  /\ FineUnchanged

\* the window's pointerup / pointercancel listener of DayTimeline
FineHandleUp ==
  /\ obs.held
  /\ fineUi' = [fineUi EXCEPT
                  !.resizeRef = "none",
                  !.overlay = IF fineUi.fineActive
                                THEN [@ EXCEPT !.locked = @ \/ fineUi.overlay.shown]
                                ELSE NoFineOverlay,
                  !.fineActive = FALSE, !.fineSide = "none",
                  !.timer = [armed |-> FALSE, due |-> 0]]
  /\ obs' = [obs EXCEPT !.held = FALSE, !.stationary = FALSE, !.inFine = FALSE,
                        !.last = IF obs.inFine THEN "fineRelease"
                                 ELSE IF obs.stationary THEN "stillRelease" ELSE "release",
                        !.fbBefore = fineBoundsStore]
  /\ UNCHANGED <<dayGrid, undoStack, redoStack, fineBoundsStore, selectedSegment,
                 resizeState, resizeArmed, now>>
  /\ FineUnchanged

\* 150 ms pass; the escalation timer, when it is due, runs its callback.
FineTick ==
  /\ now < MaxClock
  /\ now' = now + 1
  /\ fineUi' = IF fineUi.timer.armed /\ now + 1 >= fineUi.timer.due
                 THEN [fineUi EXCEPT
                         !.timer = [armed |-> FALSE, due |-> 0],
                         !.fineActive = TRUE,
                         !.overlay =
                           [shown |-> TRUE, side |-> fineUi.fineSide,
                            minute |-> IF fineUi.fineSide = "start"
                                         THEN getFineBounds(fineBoundsStore,
                                                            selectedSegment).startMinute
                                         ELSE getFineBounds(fineBoundsStore,
                                                            selectedSegment).endMinute,
                            locked |-> FALSE]]
                 ELSE fineUi
  /\ obs' = [obs EXCEPT !.inFine = @ \/ (obs.held /\ obs.stationary
                                           /\ now + 1 >= obs.heldAt + LongPressTicks),
                        !.last = "none", !.fbBefore = << >>]
  /\ UNCHANGED <<dayGrid, undoStack, redoStack, fineBoundsStore, selectedSegment,
                 resizeState, resizeArmed>>
  /\ FineUnchanged

\* the cells tapped and the columns the pointer is moved to
FineSelectCells == {<<ResizeHour, 1>>, <<ResizeHour, 4>>}
FineMoveCols == {0, 3}

FineNext ==
  \/ \E c \in FineSelectCells : FineSelect(c)
  \/ FineArm
  \/ \E side \in {"start", "end"} : FineHandleDown(side)
  \/ \E col \in FineMoveCols : FineHandleMove(col)
  \/ FineHandleUp
  \/ FineTick

SpecFine == FineInit /\ [][FineNext]_vars

\* C18: the release of a handle that was held stationary for the escalation
\* delay (FineAdjust) leaves the FineBounds store as it was and leaves the
\* adjusted minute pending: the fine overlay is shown and locked, waiting for
\* one of the two commit actions.
C18_FineReleaseKeepsPending ==
  obs.last = "fineRelease" =>
    /\ fineBoundsStore = obs.fbBefore
    /\ fineUi.overlay.shown /\ fineUi.overlay.locked

\* C19: a pointerenter that arrives while the primary button is not held
\* leaves the block store as it was, and a drag that was still marked active
\* is ended by it.
C19_HoverNeverMutates ==
  obs.hover => /\ blocks = obs.before
               /\ ~dragState.isDown

\* The pointer entered a cell with no button held while a drag that had painted
\* a block was still marked active (its pointerup was not delivered to a cell).
C19_Witness ==
  /\ obs.hover /\ obs.wasDown
  /\ obs.before # << >>
  /\ tool = "PAINT"

\* C20: an erase leaves the erased cell without execute, overlay and
\* indicator, and no cell of the grid is an empty entry: every stored cell
\* holds an execute, an overlay, an indicator or memos.
C20_EraseClearsCell ==
  /\ obs.last.op = "eraseCell"
       => /\ CellAt(dayGrid, obs.last.cellId).execute = "absent"
          /\ CellAt(dayGrid, obs.last.cellId).overlay = "absent"
          /\ CellAt(dayGrid, obs.last.cellId).indicator # "set"
  /\ \A x \in DOMAIN dayGrid :
       \E k \in {"execute", "overlay", "indicator", "memos"} :
         dayGrid[x][k] \notin {"absent", "undef"}

\* ------------------------------------------ pure functions: reference ----
\* Minute m of layer l is covered by activity a in list bs.
Covers(b, l, m, a) ==
  b.layer = l /\ b.activityId = a /\ b.startMin <= m /\ m < b.endMin

CoveredIn(bs, l, m, a) == \E k \in 1..Len(bs) : Covers(bs[k], l, m, a)

\* The reference: what is left of the cover after the candidate interval has
\* been subtracted from every block of its layer but the excluded one.
CoveredAfterSubtract(bs, c, excludeId, l, m, a) ==
  \E k \in 1..Len(bs) :
    /\ Covers(bs[k], l, m, a)
    /\ ~(l = c.layer /\ c.startMin <= m /\ m < c.endMin /\ bs[k].id # excludeId)

\* Every bound of a block or candidate is a multiple of 10 below 40; the cover
\* is constant on each [10k, 10k + 10), so it is compared at one minute of each.
PureMinutes == {5, 15, 25, 35}

\* The activities of the blocks of a list.
ActivitiesOf(bs) == {bs[k].activityId : k \in 1..Len(bs)}

\* Block b goes through resolveOverlaps untouched.
Untouched(b, c, excludeId) ==
  \/ b.layer # c.layer
  \/ b.id = excludeId
  \/ ~Intersects(c, b)

\* C21: for a candidate with startMin < endMin, resolveOverlaps agrees with
\* the subtraction of the candidate interval, minute by minute and layer by
\* layer; blocks of other layers, the excluded block and blocks that do not
\* intersect the candidate are returned as they were; eraseRange returns the
\* subtraction with no block excluded and holds no block of another activity
\* or outside the input's cover.
C21_ResolveIsSubtraction ==
  (pout.done /\ pin.cand.startMin < pin.cand.endMin) =>
    /\ ActivitiesOf(pout.list) \subseteq ActivitiesOf(pin.blocks)
    /\ ActivitiesOf(pout.erased) \subseteq ActivitiesOf(pin.blocks)
    /\ \A l \in PureLayers, m \in PureMinutes, a \in ActivitiesOf(pin.blocks) :
         /\ CoveredIn(pout.list, l, m, a)
              <=> CoveredAfterSubtract(pin.blocks, pin.cand, pin.excludeId, l, m, a)
         /\ CoveredIn(pout.erased, l, m, a)
              <=> CoveredAfterSubtract(pin.blocks, pin.cand, NoId, l, m, a)
    /\ \A i \in 1..Len(pin.blocks) :
         Untouched(pin.blocks[i], pin.cand, pin.excludeId)
           => pout.list[PiecesBefore(pin.blocks, i, pin.cand, pin.excludeId) + 1]
                = pin.blocks[i]
    /\ \A k \in 1..Len(pout.erased) : pout.erased[k].id # pin.cand.id

\* The candidate cuts the tail of an excluded block and of a second block of
\* its layer: the first is returned whole, the second trimmed.
C21_Witness ==
  /\ pout.done
  /\ pin.cand.startMin < pin.cand.endMin
  /\ Len(pin.blocks) = 2
  /\ pin.excludeId = pin.blocks[1].id
  /\ \A i \in 1..2 :
       /\ pin.blocks[i].layer = pin.cand.layer
       /\ pin.blocks[i].startMin < pin.cand.startMin
       /\ pin.cand.startMin < pin.blocks[i].endMin
       /\ pin.blocks[i].endMin <= pin.cand.endMin
  /\ Len(pout.list) = 2
  /\ Len(pout.erased) = 2


\* ------------------------------ history: pushes, undos and redos in any order --
\* Both histories driven freely: pushHistory / pushSnapshot, a mutation, undo,
\* redo and a change of tool or brush, in any order, MaxHistOps operations long.
\* obs.fresh: a push has happened and no undo since; obs.cleared: that push found
\* a redo stack that was not empty; obs.toolsPast / obs.toolsFuture: the tool and
\* brush current when each entry of the undo / redo stack was recorded.
MaxHistOps == 6

OldToolChoices == {"execute", "erase"}

StacksObs(impl) ==
  [impl |-> impl, ops |-> 0, last |-> "none", fresh |-> FALSE, cleared |-> FALSE,
   pre |-> << >>, preStack |-> << >>, toolsPast |-> << >>, toolsFuture |-> << >>,
   expect |-> << >>]

StacksInit ==
  /\ StoreInit
  /\ pin = [blocks |-> << >>]
  /\ pout = [done |-> FALSE]
  /\ OldIdle
  /\ \E impl \in {"store", "legacy"} : obs = StacksObs(impl)

StacksUnchanged ==
  UNCHANGED <<date, dayStore,
              now, dragState, pin, pout, dragRef, pendingStartCell, longPressTimer,
              longPressStart, checklistDialog, selectedSegment, resizeArmed,
              resizeState, fineBoundsStore, fineUi>>
StacksStoreOnly ==
  /\ obs.impl = "store" /\ obs.ops < MaxHistOps
  /\ UNCHANGED <<dayGrid, undoStack, redoStack, activeTool, activeBrush>>
StacksLegacyOnly ==
  /\ obs.impl = "legacy" /\ obs.ops < MaxHistOps
  /\ UNCHANGED <<blocks, past, future, idCounter, tool, brush>>

\* usePlannerStore.pushHistory
StacksPush ==
  /\ StacksStoreOnly
  /\ past' = PushedPast(past, blocks)
  /\ future' = PushedFuture(future)
  /\ obs' = [obs EXCEPT !.ops = @ + 1, !.last = "push", !.fresh = TRUE,
                        !.cleared = (Len(future) > 0),
                        !.toolsPast = Append(@, <<tool, brush>>), !.toolsFuture = << >>]
  /\ UNCHANGED <<blocks, idCounter, tool, brush>>
  /\ StacksUnchanged

\* a mutation of the collection (addBlock / removeBlock)
StacksMutate ==
  /\ StacksStoreOnly
  /\ blocks' = HistMutated(blocks, generateId(now, idCounter, "a"))
  /\ idCounter' = IF BlocksOf(blocks, "d1") = << >> THEN NextCounter(idCounter) ELSE idCounter
  /\ obs' = [obs EXCEPT !.ops = @ + 1, !.last = "mutate"]
  /\ UNCHANGED <<past, future, tool, brush>>
  /\ StacksUnchanged

\* usePlannerStore.undo
StacksUndo ==
  /\ StacksStoreOnly
  /\ blocks' = UndoBlocks(past, blocks)
  /\ future' = UndoFuture(past, future, blocks)
  /\ past' = UndoPast(past)
  /\ obs' = IF Len(past) = 0 THEN [obs EXCEPT !.ops = @ + 1, !.last = "undo-empty"]
            ELSE [obs EXCEPT !.ops = @ + 1, !.last = "undo", !.fresh = FALSE,
                             !.expect = obs.toolsPast[Len(obs.toolsPast)],
                             !.toolsPast = SubSeq(@, 1, Len(@) - 1),
                             !.toolsFuture = <<<<tool, brush>>>> \o @]
  /\ UNCHANGED <<idCounter, tool, brush>>
  /\ StacksUnchanged

\* usePlannerStore.redo
StacksRedo ==
  /\ StacksStoreOnly
  /\ blocks' = RedoBlocks(future, blocks)
  /\ past' = RedoPast(past, future, blocks)
  /\ future' = RedoFuture(future)
  /\ obs' = IF Len(future) = 0
              THEN [obs EXCEPT !.ops = @ + 1, !.last = "redo-empty",
                               !.pre = blocks, !.preStack = past]
              ELSE [obs EXCEPT !.ops = @ + 1, !.last = "redo",
                               !.pre = blocks, !.preStack = past,
                               !.expect = Head(obs.toolsFuture),
                               !.toolsFuture = Tail(@),
                               !.toolsPast = Append(@, <<tool, brush>>)]
  /\ UNCHANGED <<idCounter, tool, brush>>
  /\ StacksUnchanged

\* usePlannerStore.setTool / setBrush
StacksSetTool(tl, a) ==
  /\ StacksStoreOnly
  /\ <<tl, a>> # <<tool, brush>>
  /\ tool' = tl /\ brush' = a
  /\ obs' = [obs EXCEPT !.ops = @ + 1, !.last = "tool"]
  /\ UNCHANGED <<blocks, past, future, idCounter>>
  /\ StacksUnchanged

\* App.old.tsx: pushSnapshot
OldStacksPush ==
  /\ StacksLegacyOnly
  /\ undoStack' = pushSnapshot(undoStack, dayGrid, activeTool, activeBrush)
  /\ redoStack' = << >>
  /\ obs' = [obs EXCEPT !.ops = @ + 1, !.last = "push", !.fresh = TRUE,
                        !.cleared = (Len(redoStack) > 0),
                        !.toolsPast = Append(@, <<activeTool, activeBrush>>),
                        !.toolsFuture = << >>]
  /\ UNCHANGED <<dayGrid, activeTool, activeBrush>>
  /\ StacksUnchanged

\* App.old.tsx: a mutation of the grid (paintCell / eraseCell)
OldStacksMutate ==
  /\ StacksLegacyOnly
  /\ dayGrid' = OldHistMutated(dayGrid)
  /\ obs' = [obs EXCEPT !.ops = @ + 1, !.last = "mutate"]
  /\ UNCHANGED <<undoStack, redoStack, activeTool, activeBrush>>
  /\ StacksUnchanged

\* App.old.tsx: onUndo
OldStacksUndo ==
  /\ StacksLegacyOnly
  /\ IF Len(undoStack) = 0
       THEN /\ UNCHANGED <<dayGrid, undoStack, redoStack, activeTool, activeBrush>>
            /\ obs' = [obs EXCEPT !.ops = @ + 1, !.last = "undo-empty"]
       ELSE /\ undoStack' = SubSeq(undoStack, 1, Len(undoStack) - 1)
            /\ redoStack' = pushSnapshot(redoStack, dayGrid, activeTool, activeBrush)
            /\ dayGrid' = undoStack[Len(undoStack)].grid
            /\ activeTool' = undoStack[Len(undoStack)].activeTool
            /\ activeBrush' = undoStack[Len(undoStack)].activeBrush
            /\ obs' = [obs EXCEPT !.ops = @ + 1, !.last = "undo", !.fresh = FALSE,
                                  !.expect = obs.toolsPast[Len(obs.toolsPast)],
                                  !.toolsPast = SubSeq(@, 1, Len(@) - 1),
                                  !.toolsFuture = Append(@, <<activeTool, activeBrush>>)]
  /\ StacksUnchanged

\* App.old.tsx: onRedo
OldStacksRedo ==
  /\ StacksLegacyOnly
  /\ IF Len(redoStack) = 0
       THEN /\ UNCHANGED <<dayGrid, undoStack, redoStack, activeTool, activeBrush>>
            /\ obs' = [obs EXCEPT !.ops = @ + 1, !.last = "redo-empty",
                                  !.pre = dayGrid, !.preStack = undoStack]
       ELSE /\ redoStack' = SubSeq(redoStack, 1, Len(redoStack) - 1)
            /\ undoStack' = pushSnapshot(undoStack, dayGrid, activeTool, activeBrush)
            /\ dayGrid' = redoStack[Len(redoStack)].grid
            /\ activeTool' = redoStack[Len(redoStack)].activeTool
            /\ activeBrush' = redoStack[Len(redoStack)].activeBrush
            /\ obs' = [obs EXCEPT !.ops = @ + 1, !.last = "redo",
                                  !.pre = dayGrid, !.preStack = undoStack,
                                  !.expect = obs.toolsFuture[Len(obs.toolsFuture)],
                                  !.toolsFuture = SubSeq(@, 1, Len(@) - 1),
                                  !.toolsPast = Append(@, <<activeTool, activeBrush>>)]
  /\ StacksUnchanged

\* App.old.tsx: a tool button, a category button
OldStacksSetTool(t, a) ==
  /\ StacksLegacyOnly
  /\ <<t, a>> # <<activeTool, activeBrush>>
  /\ activeTool' = t /\ activeBrush' = a
  /\ obs' = [obs EXCEPT !.ops = @ + 1, !.last = "tool"]
  /\ UNCHANGED <<dayGrid, undoStack, redoStack>>
  /\ StacksUnchanged

StacksNext ==
  \/ StacksPush \/ StacksMutate \/ StacksUndo \/ StacksRedo
  \/ \E tl \in ToolChoices, a \in ActivityIds : StacksSetTool(tl, a)
  \/ OldStacksPush \/ OldStacksMutate \/ OldStacksUndo \/ OldStacksRedo
  \/ \E t \in OldToolChoices, a \in ActivityIds : OldStacksSetTool(t, a)

SpecStacks == StacksInit /\ [][StacksNext]_vars

\* C22: every pushHistory / pushSnapshot empties the redo stack: from a push
\* until the next undo the redo stack is empty and a redo changes neither the
\* collection nor the undo stack.
C22_PushClearsRedo ==
  obs.fresh =>
    /\ IF obs.impl = "store"
         THEN future = << >> /\ RedoBlocks(future, blocks) = blocks
              /\ RedoPast(past, future, blocks) = past
         ELSE redoStack = << >>
    /\ obs.last \in {"redo", "redo-empty"} =>
         /\ obs.last = "redo-empty"
         /\ obs.pre = (IF obs.impl = "store" THEN blocks ELSE dayGrid)
         /\ obs.preStack = (IF obs.impl = "store" THEN past ELSE undoStack)

\* A push found a redo stack that was not empty, and a redo was then tried.
C22_Witness ==
  /\ obs.fresh /\ obs.cleared /\ obs.last = "redo-empty"


\* C23: the history depth is bounded: in every reachable state the undo stack of
\* either history holds at most 50 snapshots (under the scripted run, which
\* pushes more than 50 times).
C23_DepthCapped == Len(past) <= HistoryCap /\ Len(undoStack) <= HistoryCap

\* The store's half of C23: history.past never holds more than 50 snapshots, and
\* a push onto a full stack drops the oldest and keeps the others in order.
StorePastCapped ==
  [][/\ Len(past') <= HistoryCap
     /\ (obs.impl = "store" /\ obs'.phase = "pushed" /\ Len(past) = HistoryCap)
          => past' = Append(Tail(past), JsonClone(blocks))]_vars


\* The tool and brush of the history under run.
StacksTools ==
  IF obs.impl = "store" THEN <<tool, brush>> ELSE <<activeTool, activeBrush>>

\* C24: an undo restores the tool and brush that were current when the popped
\* snapshot was pushed, and a redo restores the tool and brush that were current
\* at the undo that recorded the redo entry.
C24_UndoRestoresTools == obs.last \in {"undo", "redo"} => StacksTools = obs.expect

\* The legacy half of C24: onUndo and onRedo restore the recorded tool and brush.
LegacyRestoresTools ==
  (obs.impl = "legacy" /\ obs.last \in {"undo", "redo"}) => StacksTools = obs.expect


\* C25: with a paint or erase tool the pointerdown mutates nothing, and while the
\* pointer has only moved inside the pointerdown cell (and the long-press has not
\* fired) the grid is the one found at pointerdown and the first cell's mutation
\* is still pending.
C25_FirstCellDeferred ==
  (obs.pressed /\ obs.quiet /\ ~obs.fired)
    => dayGrid = obs.gridAtDown /\ pendingStartCell = obs.cellId


\* The blocks added to the date since the pointerdown of the gesture under way.
AddedSinceDown ==
  SubSeq(BlocksOf(blocks, "d1"), Len(BlocksOf(obs.atDown, "d1")) + 1,
         Len(BlocksOf(blocks, "d1")))

\* The number of blocks of a list that are the brush's 10-minute block of a cell.
BrushedCount(bs, cell) ==
  Cardinality({k \in 1..Len(bs) : /\ bs[k].startMin = cell[1] * 60 + cell[2] * 10
                                  /\ bs[k].endMin = bs[k].startMin + 10
                                  /\ bs[k].activityId = brush})

\* C26: in a paint gesture that has moved, with the button held, from the
\* pointerdown cell into further cells, every cell of the drag, the pointerdown
\* cell included, has received the brush exactly once.
C26_EveryCellBrushedOnce ==
  (obs.held /\ obs.pushes = 1 /\ dragState.isDown /\ tool = "PAINT"
     /\ Cardinality(dragState.activeCells) >= 2)
    => \A c \in dragState.activeCells : BrushedCount(AddedSinceDown, c) = 1


\* C27: when the pointerup or pointercancel that ends a paint or erase gesture is
\* seen only by the window's listener, the still-pending first-cell mutation has
\* been applied and nothing is left pending once the gesture is over.
C27_OutsideReleaseCommits ==
  (obs.outside /\ ~obs.pressed) => dayGrid = obs.expect /\ pendingStartCell = NoCell


\* lib/blocks.ts: cellTimeRange(startRow, startCol, endRow, endCol, startHour)
cellTimeRange(startRow, startCol, endRow, endCol, startHour) ==
  LET r1 == Min2(startRow, endRow)
      r2 == Max2(startRow, endRow)
      c1 == Min2(startCol, endCol)
      c2 == Max2(startCol, endCol)
  IN [startMin |-> ((startHour + r1) % 24) * 60 + c1 * 10,
      endMin |-> ((startHour + r2) % 24) * 60 + (c2 + 1) * 10]

\* C28: every completed "new range" gesture claims at least its pointerdown
\* cell: after the pointerup that cell holds what painting it with the brush
\* gives (a range whose bounds collapse is widened, never dropped).
C28_RangeClaimsDownCell ==
  obs.phase = "committed" =>
    CellAt(dayGrid, obs.start) = Painted(CellAt(obs.gridAtDown, obs.start), activeBrush)

\* The third part of C28: cellTimeRange returns startMin < endMin for every pair
\* of cells and every startHour (rows and hours sampled at both ends of the day).
CellTimeRangeOrdered ==
  \A r1, r2 \in {0, 3, 23}, c1, c2 \in {0, NumCols - 1}, h \in {0, StartHour, 23} :
    cellTimeRange(r1, c1, r2, c2, h).startMin < cellTimeRange(r1, c1, r2, c2, h).endMin


\* C29: after a coarse resize of the selected segment (activity a, layer L, row
\* r) to the span s'..e', every cell of the row in columns s'..e' holds a in L,
\* no cell of the row outside s'..e' (the former span included) holds a in L,
\* the FineBounds entry of the signature the drag started from is gone unless it
\* is the new signature, and the entry of the new signature is the coarse
\* default {s' * 10, (e' + 1) * 10}.
C29_CoarseResizeRewrites ==
  obs.last = "resize" =>
    LET seg == selectedSegment
        base == resizeState.base
        hour == (StartHour + seg.row) % 24
    IN /\ \A c \in 0..(NumCols - 1) :
            (CellAt(dayGrid, <<hour, c>>)[seg.layer] = seg.activityId)
              <=> (seg.startCol <= c /\ c <= seg.endCol)
       /\ segmentKey(base) # segmentKey(seg) => segmentKey(base) \notin DOMAIN fineBoundsStore
       /\ segmentKey(seg) \in DOMAIN fineBoundsStore
       /\ fineBoundsStore[segmentKey(seg)] = defaultFineBounds(seg)

\* The work segment of columns 1-2, which had a FineBounds entry, was shrunk to
\* column 1: column 2 lost work and kept its overlay.
C29_Witness ==
  /\ obs.last = "resize" /\ obs.hadEntry
  /\ resizeState.base.startCol = 1 /\ resizeState.base.endCol = 2
  /\ selectedSegment.activityId = "work" /\ selectedSegment.layer = "execute"
  /\ selectedSegment.startCol = 1 /\ selectedSegment.endCol = 1
  /\ CellAt(dayGrid, <<ResizeHour, 2>>).execute = "absent"
  /\ CellAt(dayGrid, <<ResizeHour, 2>>).overlay = "rest"


\* C30: every FineBounds entry, after any sequence of coarse resizes and fine
\* commits, is a non-empty sub-range of the coarse window of the segment its key
\* names: startCol * 10 <= startMinute < endMinute <= (endCol + 1) * 10.
C30_FineBoundsInWindow ==
  \A k \in DOMAIN fineBoundsStore :
    /\ k[4] * 10 <= fineBoundsStore[k].startMinute
    /\ fineBoundsStore[k].startMinute < fineBoundsStore[k].endMinute
    /\ fineBoundsStore[k].endMinute <= (k[5] + 1) * 10

\* A segment was shrunk to column 1 by a coarse resize and a fine commit then
\* moved its start to minute 15.
C30_Witness ==
  /\ obs.last = "fine" /\ obs.ops = 2
  /\ obs.key \in DOMAIN fineBoundsStore
  /\ obs.key[4] = 1 /\ obs.key[5] = 1
  /\ fineBoundsStore[obs.key] = [startMinute |-> 15, endMinute |-> 20]


\* C31: a fine commit in mode snap, for a pending minute inside the coarse window
\* of the selected segment, stores for the adjusted side the 10-minute boundary
\* nearest to the pending minute, a multiple of 10.
C31_SnapStoresBoundary ==
  (/\ obs.last = "fine" /\ obs.fine.mode = "snap"
   /\ obs.key[4] * 10 <= obs.fine.minute /\ obs.fine.minute <= (obs.key[5] + 1) * 10)
    => LET written == IF obs.fine.side = "start" THEN fineBoundsStore[obs.key].startMinute
                      ELSE fineBoundsStore[obs.key].endMinute
       IN written % 10 = 0 /\ written = snap10(obs.fine.minute)


\* C32: a boundary handle of an armed selected segment that has been held for
\* the escalation delay, neither moved nor released, has put the controller in
\* FineAdjust: fine mode is active and the fine overlay is shown.
C32_HoldEntersFineAdjust ==
  obs.inFine => fineUi.fineActive /\ fineUi.overlay.shown

\* C40: pressing a boundary handle of an armed selected segment and releasing it
\* without moving leaves the day grid and the FineBounds store as they were just
\* before the press.
C40_StillPressChangesNothing ==
  obs.last \in {"stillRelease", "fineRelease"}
    => dayGrid = obs.pressGrid /\ fineBoundsStore = obs.pressFb


\* ------------------------------------------ segments derived for rendering ----
\* lib/segments: buildSegmentsFromBlocks, the segments of one block from
\* currentMin on, one per hour-row it reaches
RECURSIVE SegmentsOfBlock(_, _, _, _)
SegmentsOfBlock(block, layer, startHour, currentMin) ==
  IF currentMin >= block.endMin THEN << >>
  ELSE LET hour == currentMin \div 60
           hourStart == hour * 60
           hourEnd == hourStart + 60
           segmentEnd == Min2(block.endMin, hourEnd)
           startCol == (currentMin - hourStart) \div 10
           endCol == Max2(0, ((segmentEnd - hourStart + 9) \div 10) - 1)
           piece == IF startCol <= 5 /\ endCol >= 0
                      THEN <<[row |-> (hour - startHour + 24) % 24,
                              startCol |-> Max2(0, startCol), endCol |-> Min2(5, endCol),
                              activityId |-> block.activityId, layer |-> layer,
                              blockId |-> block.id]>>
                      ELSE << >>
       IN piece \o SegmentsOfBlock(block, layer, startHour, hourEnd)

\* processBlocks(blocks.filter(b => b.layer === layer), layer), from block i on
RECURSIVE processBlocks(_, _, _, _)
processBlocks(bs, layer, startHour, i) ==
  IF i > Len(bs) THEN << >>
  ELSE (IF bs[i].layer = layer
          THEN SegmentsOfBlock(bs[i], layer, startHour, bs[i].startMin) ELSE << >>)
       \o processBlocks(bs, layer, startHour, i + 1)

buildSegmentsFromBlocks(bs, startHour) ==
  processBlocks(bs, "plan", startHour, 1) \o processBlocks(bs, "execute", startHour, 1)
    \o processBlocks(bs, "overlay", startHour, 1)

\* buildSegmentsForDay: the scan of one layer of one hour-row from column col on
RECURSIVE ScanRow(_, _, _, _, _)
ScanRow(g, hour, row, layer, col) ==
  IF col >= NumCols THEN << >>
  ELSE IF CellAt(g, <<hour, col>>)[layer] = "absent"
    THEN ScanRow(g, hour, row, layer, col + 1)
  ELSE LET actId == CellAt(g, <<hour, col>>)[layer]
           end == ExpandRight(g, hour, layer, actId, col)
       IN <<[row |-> row, startCol |-> col, endCol |-> end, activityId |-> actId,
             layer |-> layer]>>
          \o ScanRow(g, hour, row, layer, end + 1)

RECURSIVE ScanRows(_, _, _)
ScanRows(g, startHour, row) ==
  IF row >= 24 THEN << >>
  ELSE ScanRow(g, (startHour + row) % 24, row, "execute", 0)
       \o ScanRow(g, (startHour + row) % 24, row, "overlay", 0)
       \o ScanRows(g, startHour, row + 1)

buildSegmentsForDay(g, startHour) == ScanRows(g, startHour, 0)

\* components/DayTimeline: convertBlocksToSegments, the segments of one block
\* for the hours h..endHour24
RECURSIVE ConvertBlock(_, _, _, _)
ConvertBlock(block, startHour, h, endHour24) ==
  IF h > endHour24 THEN << >>
  ELSE LET hourStart == h * 60
           segStart == Max2(block.startMin, hourStart)
           segEnd == Min2(block.endMin, (h + 1) * 60)
       IN <<[row |-> (h - startHour + 24) % 24,
             startCol |-> (segStart - hourStart) \div 10,
             endCol |-> (segEnd - hourStart - 1) \div 10,
             layer |-> block.layer, activityId |-> block.activityId,
             startMinute |-> segStart - hourStart, endMinute |-> segEnd - hourStart]>>
          \o ConvertBlock(block, startHour, h + 1, endHour24)

RECURSIVE convertBlocksToSegments(_, _, _)
convertBlocksToSegments(bs, startHour, i) ==
  IF i > Len(bs) THEN << >>
  ELSE (IF bs[i].layer \in {"execute", "overlay"}
          THEN ConvertBlock(bs[i], startHour, bs[i].startMin \div 60,
                            (bs[i].endMin - 1) \div 60)
          ELSE << >>)
       \o convertBlocksToSegments(bs, startHour, i + 1)

\* The inputs of the segment builders: lists of up to two blocks without
\* overlap in a layer, around the boundary between two hours, or a grid whose
\* hour SegHour holds any of three values in the execute slot of each column and
\* possibly a two-column overlay; and a start hour of the day view.
SegHour == 6
SegTimes == {350, 360, 370, 380}
SegStartHours == {0, SegHour, 23}

SegBlocks ==
  {createBlock(<<0, 0, "a">>, "d1", st, e, a, l) :
     st \in SegTimes, e \in SegTimes, a \in ActivityIds, l \in PureLayers}

NoOverlapIn(bs) ==
  \A i, j \in 1..Len(bs) :
    (i < j /\ bs[i].layer = bs[j].layer)
      => ~Intersects(bs[i], bs[j])

SegLists ==
  {bs \in UNION {[1..n -> {b \in SegBlocks : b.startMin < b.endMin}] : n \in 0..2} :
     NoOverlapIn(bs)}

SegGrids ==
  {[cid \in {<<SegHour, c>> : c \in 0..(NumCols - 1)} |->
      [EmptyCell EXCEPT !.execute = ex[cid[2]],
                        !.overlay = IF ov /\ cid[2] \in {2, 3} THEN "rest" ELSE "absent"]] :
     ex \in [0..(NumCols - 1) -> {"absent", "work", "rest"}], ov \in BOOLEAN}

SegInit ==
  /\ StoreInit
  /\ tool = "PAINT" /\ brush = "work"
  /\ OldIdle
  /\ obs = [run |-> 0]
  /\ pout = [done |-> FALSE]
  /\ \E h \in SegStartHours :
       \/ \E bs \in SegLists : pin = [kind |-> "blocks", blocks |-> bs, startHour |-> h]
       \/ \E g \in SegGrids : pin = [kind |-> "grid", grid |-> g, startHour |-> h]

\* the segments are derived from the blocks of the day
SegFromBlocks ==
  /\ ~pout.done /\ pin.kind = "blocks"
  /\ pout' = [done |-> TRUE, segments |-> buildSegmentsFromBlocks(pin.blocks, pin.startHour)]
  /\ UNCHANGED <<blocks, past, future, tool, brush, idCounter, now, dragState, pin, obs>>
  /\ OldUnchanged

\* the segments are derived from the legacy day grid
SegFromGrid ==
  /\ ~pout.done /\ pin.kind = "grid"
  /\ pout' = [done |-> TRUE, segments |-> buildSegmentsForDay(pin.grid, pin.startHour)]
  /\ UNCHANGED <<blocks, past, future, tool, brush, idCounter, now, dragState, pin, obs>>
  /\ OldUnchanged

SegNext == SegFromBlocks \/ SegFromGrid

SpecSeg == SegInit /\ [][SegNext]_vars

\* The activities that occupy cell (hour, col) of a layer in the input.
OccupantsOf(hour, col, layer) ==
  IF pin.kind = "grid"
    THEN {CellAt(pin.grid, <<hour, col>>)[layer]} \ {"absent"}
    ELSE {pin.blocks[i].activityId : i \in
            {k \in 1..Len(pin.blocks) :
               /\ pin.blocks[k].layer = layer
               /\ pin.blocks[k].startMin < hour * 60 + col * 10 + 10
               /\ pin.blocks[k].endMin > hour * 60 + col * 10}}

\* C33: each derived segment lies in one hour-row with 0 <= startCol <= endCol
\* <= 5 and row = (hour - startHour + 24) mod 24, the segments of a layer cover
\* exactly the occupied cells of that layer, and each segment is a maximal run:
\* no two segments of the same row and layer with the same activity occupy
\* adjacent columns.
C33_SegmentsAreMaximalRuns ==
  pout.done =>
    LET segs == pout.segments
    IN /\ \A k \in 1..Len(segs) :
            /\ 0 <= segs[k].startCol /\ segs[k].startCol <= segs[k].endCol
            /\ segs[k].endCol <= 5 /\ segs[k].row \in 0..23
       /\ \A hour \in 0..23, col \in 0..(NumCols - 1), layer \in PureLayers,
             a \in ActivityIds :
            (a \in OccupantsOf(hour, col, layer))
              <=> \E k \in 1..Len(segs) :
                    /\ segs[k].row = (hour - pin.startHour + 24) % 24
                    /\ segs[k].layer = layer /\ segs[k].activityId = a
                    /\ segs[k].startCol <= col /\ col <= segs[k].endCol
       /\ \A j, k \in 1..Len(segs) :
            (segs[j].row = segs[k].row /\ segs[j].layer = segs[k].layer
               /\ segs[j].activityId = segs[k].activityId)
              => segs[j].endCol + 1 # segs[k].startCol

\* The legacy half of C33: the segments derived from a day grid.
GridSegmentsAreMaximalRuns == pin.kind = "grid" => C33_SegmentsAreMaximalRuns


\* C34: long-press and paint exclude each other within one gesture: a gesture
\* that has changed the grid has not opened the checklist dialog and its
\* long-press timer is no longer armed, and a gesture whose long-press has fired
\* has not changed the grid.
C34_LongPressExcludesPaint ==
  dayGrid # obs.gridAtDown
    => ~obs.fired /\ ~checklistDialog.open /\ ~longPressTimer.armed

\* A press has painted its cell and is still held after the long-press delay
\* has passed, and no dialog is open.
C34_Witness ==
  /\ obs.pressed /\ dayGrid # obs.gridAtDown
  /\ now > obs.at + LongPressTicks
  /\ ~checklistDialog.open


\* ------------------------------------------- history across a change of date --
\* App.old.tsx with two dates: taps on cells of the date on screen (the
\* pointerdown pushes a snapshot, the pointerup paints the pressed cell), the
\* Prev day / Next day buttons, undo and redo, MaxDateOps operations long.
\* Cell ids carry the date, as makeCellId builds them.  obs.datesPast /
\* obs.datesFuture: the date on screen when each entry of the undo / redo stack
\* was recorded; obs.snapDate: that date for the snapshot the last undo or redo
\* applied; obs.pre: the grid of the date on screen just before it.
MaxDateOps == 5

StoreDates == {"d1", "d2"}

makeCellId(d, hour, col) == <<d, hour, col>>

\* dayStore as loaded from storage: nothing, or one painted cell on d2.
LoadedDayStore ==
  [d \in {"d2"} |-> [x \in {makeCellId("d2", DragRow, 0)} |-> [EmptyCell EXCEPT !.execute = "rest"]]]

\* dayStore[d] ?? {}
GridOfDate(store, d) == IF d \in DOMAIN store THEN store[d] ELSE << >>

\* What the day view shows of date d when its grid is g: the execute and overlay
\* of each cell looked up under makeCellId(d, hour, col).
DateCells(g, d) ==
  [c \in 0..1 |-> <<CellAt(g, makeCellId(d, DragRow, c)).execute,
                    CellAt(g, makeCellId(d, DragRow, c)).overlay>>]

DatesInit ==
  /\ StoreInit
  /\ tool = "PAINT" /\ brush = "work"
  /\ pin = [blocks |-> << >>]
  /\ pout = [done |-> FALSE]
  /\ date = "d1"
  /\ dayStore \in {<< >>, LoadedDayStore}
  /\ dayGrid = << >>
  /\ undoStack = << >> /\ redoStack = << >>
  /\ activeTool = "execute" /\ activeBrush = "work"
  /\ dragRef = OldNoDrag
  /\ pendingStartCell = NoCell
  /\ longPressTimer = [armed |-> FALSE, cellId |-> NoCell, due |-> 0]
  /\ longPressStart = [set |-> FALSE, cellId |-> NoCell]
  /\ checklistDialog = [open |-> FALSE, startMin |-> 0, endMin |-> 0, targetCell |-> NoCell]
  /\ selectedSegment = NoSeg
  /\ resizeArmed = FALSE
  /\ resizeState = [active |-> FALSE, base |-> NoSeg]
  /\ fineBoundsStore = << >>
  /\ fineUi = FineUiIdle
  /\ obs = [ops |-> 0, last |-> "none", datesPast |-> << >>, datesFuture |-> << >>,
            snapDate |-> "none", pre |-> << >>]

DatesUnchanged ==
  UNCHANGED <<blocks, past, future, tool, brush, idCounter, now, dragState, pin, pout,
              dragRef, longPressTimer, longPressStart,
              checklistDialog, selectedSegment, resizeArmed, resizeState,
              fineBoundsStore, fineUi>>

\* onCellPointerDown on a cell of the date on screen: pushSnapshot, the cell is pending
DatesPointerDown(col) ==
  /\ obs.ops < MaxDateOps
  /\ pendingStartCell = NoCell
  /\ undoStack' = pushSnapshot(undoStack, dayGrid, activeTool, activeBrush)
  /\ redoStack' = << >>
  /\ pendingStartCell' = makeCellId(date, DragRow, col)
  /\ obs' = [obs EXCEPT !.ops = @ + 1, !.last = "down",
                        !.datesPast = Append(@, date), !.datesFuture = << >>]
  /\ UNCHANGED <<dayGrid, date, dayStore, activeTool, activeBrush>>
  /\ DatesUnchanged

\* onCellPointerUp: the pending cell is painted
DatesPointerUp ==
  /\ pendingStartCell # NoCell
  /\ dayGrid' = paintCell(dayGrid, pendingStartCell, activeBrush)
  /\ pendingStartCell' = NoCell
  /\ obs' = [obs EXCEPT !.last = "up"]
  /\ UNCHANGED <<undoStack, redoStack, date, dayStore, activeTool, activeBrush>>
  /\ DatesUnchanged

\* Prev day / Next day: setDate; dayGrid is dayStore[dateISO] ?? {} of the new date
DatesSetDate(d) ==
  /\ obs.ops < MaxDateOps
  /\ pendingStartCell = NoCell
  /\ d # date
  /\ date' = d
  /\ dayGrid' = GridOfDate(dayStore, d)
  /\ dayStore' = [x \in (DOMAIN dayStore \ {d}) \cup {date} |->
                    IF x = date THEN dayGrid ELSE dayStore[x]]
  /\ obs' = [obs EXCEPT !.ops = @ + 1, !.last = "date"]
  /\ UNCHANGED <<undoStack, redoStack, pendingStartCell, activeTool, activeBrush>>
  /\ DatesUnchanged

\* onUndo: applyGrid(snap.grid) writes dayStore[dateISO] of the date on screen
DatesUndo ==
  /\ obs.ops < MaxDateOps
  /\ pendingStartCell = NoCell
  /\ Len(undoStack) > 0
  /\ undoStack' = SubSeq(undoStack, 1, Len(undoStack) - 1)
  /\ redoStack' = pushSnapshot(redoStack, dayGrid, activeTool, activeBrush)
  /\ dayGrid' = undoStack[Len(undoStack)].grid
  /\ activeTool' = undoStack[Len(undoStack)].activeTool
  /\ activeBrush' = undoStack[Len(undoStack)].activeBrush
  /\ obs' = [obs EXCEPT !.ops = @ + 1, !.last = "undo", !.pre = dayGrid,
                        !.snapDate = obs.datesPast[Len(obs.datesPast)],
                        !.datesPast = SubSeq(@, 1, Len(@) - 1),
                        !.datesFuture = Append(@, date)]
  /\ UNCHANGED <<date, dayStore, pendingStartCell>>
  /\ DatesUnchanged

\* onRedo
DatesRedo ==
  /\ obs.ops < MaxDateOps
  /\ pendingStartCell = NoCell
  /\ Len(redoStack) > 0
  /\ redoStack' = SubSeq(redoStack, 1, Len(redoStack) - 1)
  /\ undoStack' = pushSnapshot(undoStack, dayGrid, activeTool, activeBrush)
  /\ dayGrid' = redoStack[Len(redoStack)].grid
  /\ activeTool' = redoStack[Len(redoStack)].activeTool
  /\ activeBrush' = redoStack[Len(redoStack)].activeBrush
  /\ obs' = [obs EXCEPT !.ops = @ + 1, !.last = "redo", !.pre = dayGrid,
                        !.snapDate = obs.datesFuture[Len(obs.datesFuture)],
                        !.datesFuture = SubSeq(@, 1, Len(@) - 1),
                        !.datesPast = Append(@, date)]
  /\ UNCHANGED <<date, dayStore, pendingStartCell>>
  /\ DatesUnchanged

DatesNext ==
  \/ \E col \in 0..1 : DatesPointerDown(col)
  \/ DatesPointerUp
  \/ \E d \in StoreDates : DatesSetDate(d)
  \/ DatesUndo
  \/ DatesRedo

SpecDates == DatesInit /\ [][DatesNext]_vars

\* C35: undo and redo change only the date the snapshot was taken on: when the
\* snapshot the last undo or redo applied was recorded on another date than the
\* one on screen, the cells of the date on screen are what they were before it.
C35_UndoKeepsOtherDates ==
  (obs.last \in {"undo", "redo"} /\ obs.snapDate # date)
    => DateCells(dayGrid, date) = DateCells(obs.pre, date)


\* C36: no cell of the grid holds the same activity in its execute and in its
\* overlay slot, after any sequence of selections, coarse resizes and fine
\* commits.
C36_ExecuteOverlayDiffer ==
  \A cid \in DOMAIN dayGrid :
    dayGrid[cid].execute # "absent" => dayGrid[cid].execute # dayGrid[cid].overlay


\* C37: during a coarse resize drag that has brought the segment to columns
\* [s', e'], every cell of the row outside [s', e'] that did not belong to the
\* selected segment when the drag started holds, in the segment's layer, what it
\* held when the drag started (the snapshot the drag pushed).
C37_ResizeKeepsOtherCells ==
  (resizeState.active /\ obs.last = "resize")
    => LET base == resizeState.base
           atStart == undoStack[Len(undoStack)].grid
           hour == (StartHour + base.row) % 24
       IN \A c \in 0..(NumCols - 1) :
            (/\ ~(selectedSegment.startCol <= c /\ c <= selectedSegment.endCol)
             /\ ~(base.startCol <= c /\ c <= base.endCol))
              => CellAt(dayGrid, <<hour, c>>)[base.layer]
                   = CellAt(atStart, <<hour, c>>)[base.layer]


\* App.tsx: the startHour the application passes to the day timeline.
TimelineStartHour == 6

\* The segments the day timeline renders for the blocks of the date.
RenderedSegments == convertBlocksToSegments(BlocksOf(blocks, "d1"), TimelineStartHour, 1)

\* C38: a cell painted through the day timeline at the displayed (row, col) is
\* rendered where it was painted: for every cell of the drag under way that has
\* received the brush, the timeline shows an execute segment of that row that
\* covers that column.
C38_PaintRendersInPlace ==
  (obs.held /\ dragState.isDown /\ tool = "PAINT")
    => \A c \in dragState.activeCells :
         BrushedCount(AddedSinceDown, c) >= 1
           => \E k \in 1..Len(RenderedSegments) :
                /\ RenderedSegments[k].layer = "execute"
                /\ RenderedSegments[k].row = c[1]
                /\ RenderedSegments[k].startCol <= c[2]
                /\ c[2] <= RenderedSegments[k].endCol


\* ------------------------------------------- persistence: save, then load -----
\* usePlannerStore.saveToStorage followed by loadFromStorage, in the same page
\* or after a reload.  pin is the store at the save (blocks, activities,
\* checklists) and what the legacy key of localStorage holds; blocks is the
\* store's blocks; pout holds the store's activities and checklists, the item
\* of localStorage under STORAGE_KEY (v2) and the position in the scenario.
NoItem == [present |-> FALSE, schemaVersion |-> "absent", activities |-> << >>,
           blocksByDate |-> << >>, checklistByDate |-> << >>]

NoLegacy == [present |-> FALSE, activities |-> << >>, day |-> << >>]

SaveBlocks ==
  {<< >>,
   [d \in {"d1"} |-> <<createBlock(<<0, 1, "a">>, "d1", 360, 370, "work", "execute")>>],
   [d \in {"d1"} |-> <<createBlock(<<0, 1, "a">>, "d1", 360, 370, "work", "execute"),
                       createBlock(<<0, 2, "a">>, "d1", 370, 380, "rest", "execute")>>]}
SaveActivities == {<< >>, <<"work">>, <<"work", "rest">>}
SaveChecklists == {<< >>, [d \in {"d1"} |-> <<"item">>]}
SaveLegacy ==
  {NoLegacy} \cup
  {[present |-> TRUE, activities |-> <<"study">>,
    day |-> [c \in {<<DragRow, 0>>} |-> [EmptyCell EXCEPT !.execute = a]]] : a \in {"work", "rest"}}

\* JSON.stringify then JSON.parse of the record saveToStorage passes to
\* saveState: activities, blocksByDate, checklistByDate (and theme); it has no
\* schemaVersion property, and undefined properties of the blocks are dropped.
SavedItem(bs, acts, chk) ==
  [present |-> TRUE, schemaVersion |-> "absent", activities |-> acts,
   blocksByDate |-> JsonClone(bs), checklistByDate |-> chk]

\* migrateV1toV2 of the legacy item (createEmptyStateV2 has schemaVersion 2,
\* written "2" here; a missing property is "absent")
migrateV1toV2(legacy) ==
  [present |-> TRUE, schemaVersion |-> "2", activities |-> legacy.activities,
   blocksByDate |->
     [d \in {"d1"} |->
        LET bs == migrateDayGridToBlocks(legacy.day)
        IN [k \in 1..Len(bs) |->
              [id |-> bs[k].id, dateISO |-> bs[k].dateISO, startMin |-> bs[k].startMin,
               endMin |-> bs[k].endMin, activityId |-> bs[k].activityId,
               layer |-> bs[k].layer, opt |-> "absent"]]],
   checklistByDate |-> << >>]

\* loadState: [state, v2]: the state returned (NoItem for null) and the item
\* under STORAGE_KEY afterwards (the migrated state is saved).
loadState(v2, legacy) ==
  IF v2.present /\ v2.schemaVersion = "2" THEN [state |-> v2, v2 |-> v2]
  ELSE IF legacy.present
    THEN [state |-> migrateV1toV2(legacy), v2 |-> migrateV1toV2(legacy)]
  ELSE [state |-> NoItem, v2 |-> v2]

SaveInit ==
  /\ StoreInit
  /\ tool = "PAINT" /\ brush = "work"
  /\ OldIdle
  /\ pin \in {[blocks |-> b, activities |-> a, checklists |-> c, legacy |-> l] :
                b \in SaveBlocks, a \in SaveActivities, c \in SaveChecklists,
                l \in SaveLegacy}
  /\ pout = [stage |-> "start", reloaded |-> FALSE, v2 |-> NoItem,
             activities |-> << >>, checklists |-> << >>]
  /\ obs = [run |-> 0]

SaveUnchanged ==
  /\ UNCHANGED <<pin, obs, past, future, tool, brush, idCounter, now, dragState>>
  /\ OldUnchanged

\* The store comes to hold the state that is going to be saved.
SaveFill ==
  /\ pout.stage = "start"
  /\ blocks' = pin.blocks
  /\ pout' = [pout EXCEPT !.stage = "filled", !.activities = pin.activities,
                          !.checklists = pin.checklists]
  /\ SaveUnchanged

\* usePlannerStore.saveToStorage
saveToStorage ==
  /\ pout.stage = "filled"
  /\ pout' = [pout EXCEPT !.stage = "saved",
                          !.v2 = SavedItem(blocks, pout.activities, pout.checklists)]
  /\ UNCHANGED blocks
  /\ SaveUnchanged

\* The page is reloaded: the store is created anew (part_004:218-220).
SaveReload ==
  /\ pout.stage = "saved"
  /\ blocks' = << >>
  /\ pout' = [pout EXCEPT !.stage = "reloaded", !.reloaded = TRUE,
                          !.activities = << >>, !.checklists = << >>]
  /\ SaveUnchanged

\* usePlannerStore.loadFromStorage
loadFromStorage ==
  /\ pout.stage \in {"saved", "reloaded"}
  /\ LET r == loadState(pout.v2, pin.legacy)
     IN IF r.state.present
          THEN /\ blocks' = r.state.blocksByDate
               /\ pout' = [pout EXCEPT !.stage = "loaded", !.v2 = r.v2,
                                       !.activities = r.state.activities,
                                       !.checklists = r.state.checklistByDate]
          ELSE /\ UNCHANGED blocks
               /\ pout' = [pout EXCEPT !.stage = "loaded", !.v2 = r.v2]
  /\ SaveUnchanged

SaveNext == SaveFill \/ saveToStorage \/ SaveReload \/ loadFromStorage

SpecSave == SaveInit /\ [][SaveNext]_vars

\* C39: what saveToStorage wrote is what the next load gives back: after a save
\* followed by a load, the store's blocks, activities and checklists equal the
\* saved ones.
C39_SaveLoadRoundTrip ==
  pout.stage = "loaded"
    => /\ DeepEqual(blocks, pin.blocks)
       /\ pout.activities = pin.activities
       /\ pout.checklists = pin.checklists

====
